---------------------------- MODULE Spec2Model ----------------------------
(***************************************************************************)
(* A model of UiPathClient (src/src/uipath-client.ts): the token manager,  *)
(* the request executor, the query builder with its fallback, the listing  *)
(* operations and the job statistics.                                      *)
(*                                                                         *)
(* Strings are sequences of one-character strings, so that concatenation   *)
(* (template literals), String(n) and String.prototype.includes are        *)
(* computed as the code computes them.  An optional value (undefined or    *)
(* null in the source) is None or Some(v).                                 *)
(***************************************************************************)
EXTENDS Integers, Sequences, FiniteSets, TLC

VARIABLES
  accessToken,      \* this.accessToken: string | null
  tokenExpiresAt,   \* this.tokenExpiresAt: Date | null, in ms
  defaultFolderId,  \* this.defaultFolderId, set by the constructor
  now,              \* the wall clock (Date.now()), in ms
  pc,               \* where the operation in progress is suspended
  call,             \* the public operation in progress and its options
  frame,            \* the local variables of the operation in progress
  req,              \* the arguments of the this.request(...) call in progress
  token,            \* request's local `token`: what ensureToken returned
  wire,             \* the HTTP request in flight
  traffic,          \* the HTTP requests sent since the operation was called
  hist,             \* the resource requests of the listing call in progress, with their responses
  last,             \* the last HTTP response the operation received
  used,             \* whether an operation was called since construction
  result,           \* what the operation returned or threw
  config,           \* this.config: the UiPathConfig the constructor was given
  baseUrl,          \* this.baseUrl: what buildOrchestratorUrl() returned
  env,              \* process.env.NODE_TLS_REJECT_UNAUTHORIZED, shared by the process
  peers,            \* the clients constructed in the process, with their fetches
  inflight,         \* the this.request calls of the callers that share the client
  granted,          \* the exchanges that completed, in the order they completed
  backing           \* the collection behind the remote side, when it is a stable one

vars == <<accessToken, tokenExpiresAt, defaultFolderId, now, pc, call, frame,
          req, token, wire, traffic, hist, last, used, result,
          config, baseUrl, env, peers, inflight, granted, backing>>

\* what an operation of the one caller leaves as it is: the fields no method
\* assigns, the environment of the process, the other clients, the other callers
\* and the remote collection
outside == <<config, baseUrl, env, peers, inflight, granted, backing>>

-----------------------------------------------------------------------------
(* Bounds of the model *)

\* the clock advances at most this many times
MaxTicks == 2
\* the largest @odata.count the remote side reports
MaxCount == 1
\* the largest page the remote side returns
MaxPage == 2

-----------------------------------------------------------------------------
(* Optional values and strings *)

None == <<>>
Some(v) == <<v>>

\* a ?? b
OrElse(a, b) == IF a # None THEN a ELSE b

Digit(d) == CASE d = 0 -> "0" [] d = 1 -> "1" [] d = 2 -> "2" [] d = 3 -> "3"
              [] d = 4 -> "4" [] d = 5 -> "5" [] d = 6 -> "6" [] d = 7 -> "7"
              [] d = 8 -> "8" [] d = 9 -> "9"

\* String(n) for a non-negative integer n
RECURSIVE ToStr(_)
ToStr(n) == IF n < 10 THEN <<Digit(n)>> ELSE ToStr(n \div 10) \o <<Digit(n % 10)>>

\* s.includes(sub)
Includes(s, sub) ==
  \E i \in 0..(Len(s) - Len(sub)) : SubSeq(s, i + 1, i + Len(sub)) = sub

\* parts.join(sep)
RECURSIVE Join(_, _)
Join(parts, sep) ==
  IF parts = <<>> THEN <<>>
  ELSE IF Len(parts) = 1 THEN parts[1]
  ELSE parts[1] \o sep \o Join(Tail(parts), sep)

\* the sequences of at most n distinct elements of S
Extend(S, p) == {Append(p, x) : x \in {y \in S : \A i \in 1..Len(p) : p[i] # y}}

RECURSIVE DistinctSeqs(_, _)
DistinctSeqs(S, n) ==
  IF n = 0 THEN {<<>>}
  ELSE LET shorter == DistinctSeqs(S, n - 1)
       IN  shorter \cup UNION {Extend(S, p) : p \in {q \in shorter : Len(q) = n - 1}}

-----------------------------------------------------------------------------
(* String constants of the source and of the remote side *)

\* src/src/uipath-client.ts:853 and :276, the substring getJobs and getQueueItems look for
sInvalidODataQueryOptions == <<"I","n","v","a","l","i","d"," ","O","D","a","t","a"," ","q","u","e","r","y"," ","o","p","t","i","o","n","s">>
\* src/src/uipath-client.ts:606, the substring the other listings look for
sInvalidOData == <<"I","n","v","a","l","i","d"," ","O","D","a","t","a">>
\* src/src/uipath-client.ts:178, the parts of the request error message
sApiRequestFailed == <<"A","P","I"," ","r","e","q","u","e","s","t"," ","f","a","i","l","e","d"," ","(">>
sCloseColon == <<")",":"," ">>
\* src/src/uipath-client.ts:127, the prefix of the token error message
sFailedToObtain == <<"F","a","i","l","e","d"," ","t","o"," ","o","b","t","a","i","n"," ","a","c","c","e","s","s"," ","t","o","k","e","n",":"," ">>
\* src/src/uipath-client.ts:139-140, header values
sBearer == <<"B","e","a","r","e","r"," ">>
sContentTypeJson == <<"a","p","p","l","i","c","a","t","i","o","n","/","j","s","o","n">>
\* query option values
sTrue == <<"t","r","u","e">>
sCreationTimeDesc == <<"C","r","e","a","t","i","o","n","T","i","m","e"," ","d","e","s","c">>
sDisplayNameAsc == <<"D","i","s","p","l","a","y","N","a","m","e"," ","a","s","c">>
sNameAsc == <<"N","a","m","e"," ","a","s","c">>
sTimeStampDesc == <<"T","i","m","e","S","t","a","m","p"," ","d","e","s","c">>
sExecutionTimeDesc == <<"E","x","e","c","u","t","i","o","n","T","i","m","e"," ","d","e","s","c">>
\* the pieces of $filter
sAnd == <<" ","a","n","d"," ">>
sQuote == <<"'">>
sStateEq == <<"S","t","a","t","e"," ","e","q"," ","'">>
sStatusEq == <<"S","t","a","t","u","s"," ","e","q"," ","'">>
sReleaseNameEq == <<"R","e","l","e","a","s","e","N","a","m","e"," ","e","q"," ","'">>
sQueueDefinitionIdEq == <<"Q","u","e","u","e","D","e","f","i","n","i","t","i","o","n","I","d"," ","e","q"," ">>
sEnabledEq == <<"E","n","a","b","l","e","d"," ","e","q"," ">>
\* endpoints
epFolders == <<"/","o","d","a","t","a","/","F","o","l","d","e","r","s">>
epRobots == <<"/","o","d","a","t","a","/","R","o","b","o","t","s">>
epRobotsFromFolder == <<"/","o","d","a","t","a","/","R","o","b","o","t","s","/","U","i","P","a","t","h",".","S","e","r","v","e","r",".","C","o","n","f","i","g","u","r","a","t","i","o","n",".","O","D","a","t","a",".","G","e","t","R","o","b","o","t","s","F","r","o","m","F","o","l","d","e","r","(","f","o","l","d","e","r","I","d","=">>
sCloseParen == <<")">>
epMachines == <<"/","o","d","a","t","a","/","M","a","c","h","i","n","e","s">>
epRobotLogs == <<"/","o","d","a","t","a","/","R","o","b","o","t","L","o","g","s">>
epSessions == <<"/","o","d","a","t","a","/","S","e","s","s","i","o","n","s">>
epAssets == <<"/","o","d","a","t","a","/","A","s","s","e","t","s">>
epProcessSchedules == <<"/","o","d","a","t","a","/","P","r","o","c","e","s","s","S","c","h","e","d","u","l","e","s">>
epAuditLogs == <<"/","o","d","a","t","a","/","A","u","d","i","t","L","o","g","s">>
epQueueItems == <<"/","o","d","a","t","a","/","Q","u","e","u","e","I","t","e","m","s">>
epQueueDefinitions == <<"/","o","d","a","t","a","/","Q","u","e","u","e","D","e","f","i","n","i","t","i","o","n","s">>
epJobs == <<"/","o","d","a","t","a","/","J","o","b","s">>
\* src/src/types.ts:134-143, JobState
sPending == <<"P","e","n","d","i","n","g">>
sRunning == <<"R","u","n","n","i","n","g">>
sSuccessful == <<"S","u","c","c","e","s","s","f","u","l">>
sFaulted == <<"F","a","u","l","t","e","d">>
sStopped == <<"S","t","o","p","p","e","d">>
sTerminated == <<"T","e","r","m","i","n","a","t","e","d">>
sSuspended == <<"S","u","s","p","e","n","d","e","d">>
\* queue item statuses and session states
sNew == <<"N","e","w">>
sFailed == <<"F","a","i","l","e","d">>
sAvailable == <<"A","v","a","i","l","a","b","l","e">>
\* what the remote side can answer: error bodies, a network failure's message, tokens, release names
bodyInvalidQueryOptions == <<"I","n","v","a","l","i","d"," ","O","D","a","t","a"," ","q","u","e","r","y"," ","o","p","t","i","o","n","s",".">>
bodyInvalidFilter == <<"I","n","v","a","l","i","d"," ","O","D","a","t","a"," ","f","i","l","t","e","r",".">>
bodyServerError == <<"I","n","t","e","r","n","a","l"," ","S","e","r","v","e","r"," ","E","r","r","o","r">>
bodyInvalidClient == <<"i","n","v","a","l","i","d","_","c","l","i","e","n","t">>
sFetchFailed == <<"f","e","t","c","h"," ","f","a","i","l","e","d">>
tokenA == <<"t","k","A">>
tokenB == <<"t","k","B">>
sP1 == <<"P","1">>
sP2 == <<"P","2">>
\* src/src/types.ts:94-101, QueueItemStatus
sInProgress == <<"I","n","P","r","o","g","r","e","s","s">>
sAbandoned == <<"A","b","a","n","d","o","n","e","d">>
\* src/src/uipath-client.ts:1059, :1064, :1086, :1186, the releases and the faulted jobs
epReleases == <<"/","o","d","a","t","a","/","R","e","l","e","a","s","e","s">>
sProcessKeyEq == <<"P","r","o","c","e","s","s","K","e","y"," ","e","q"," ","'">>
sNameEq == <<"N","a","m","e"," ","e","q"," ","'">>
sStateEqFaulted == <<"S","t","a","t","e"," ","e","q"," ","'","F","a","u","l","t","e","d","'">>
\* names the caller passes: a queue, and a release name with a single quote in it
sOrders == <<"O","r","d","e","r","s">>
sQuoted == <<"O","'","B">>
\* timestamps as the remote side reports them, and a text that is none
t100000 == <<"2","0","2","4","-","0","1","-","0","1","T","1","0",":","0","0",":","0","0",".","0","0","0","Z">>
t100001h == <<"2","0","2","4","-","0","1","-","0","1","T","1","0",":","0","0",":","0","1",".","5","0","0","Z">>
t100003 == <<"2","0","2","4","-","0","1","-","0","1","T","1","0",":","0","0",":","0","3",".","0","0","0","Z">>
t100200 == <<"2","0","2","4","-","0","1","-","0","1","T","1","0",":","0","2",":","0","0",".","0","0","0","Z">>
tMarch == <<"2","0","2","4","-","0","3","-","0","1","T","0","0",":","0","0",":","0","0",".","4","9","9","Z">>
tLeapDay == <<"2","0","2","4","-","0","2","-","2","9","T","2","3",":","5","9",":","5","9",".","0","0","0","Z">>
tGarbage == <<"n","/","a">>
\* src/src/types.ts:179-186, the keys of the releases the remote side holds
sK1 == <<"K","1">>
sK2 == <<"K","2">>
sK3 == <<"K","3">>
\* src/src/index.ts:819, :846, :874 and src/src/uipath-client.ts:1301, messages and names
sQueueNotFound == <<"Q","u","e","u","e"," ","n","o","t"," ","f","o","u","n","d",":"," ">>
sNoReleaseFound == <<"N","o"," ","r","e","l","e","a","s","e"," ","f","o","u","n","d"," ","f","o","r"," ","p","r","o","c","e","s","s",":"," ">>
sFolderSpace == <<"F","o","l","d","e","r"," ">>
sFinance == <<"F","i","n","a","n","c","e">>
sCreationTimeGe == <<"C","r","e","a","t","i","o","n","T","i","m","e"," ","g","e"," ">>
sCreationTimeLe == <<"C","r","e","a","t","i","o","n","T","i","m","e"," ","l","e"," ">>
\* src/src/uipath-client.ts:67-79 and src/src/types.ts:3-10, the texts of a configuration
sOrchestrator_ == <<"o","r","c","h","e","s","t","r","a","t","o","r","_">>
sSlashOrchestrator_ == <<"/","o","r","c","h","e","s","t","r","a","t","o","r","_">>
sSlash == <<"/">>
urlOrgSlash == <<"h","t","t","p","s",":","/","/","h","/","o","r","g","/">>
urlOrgTenant == <<"h","t","t","p","s",":","/","/","h","/","o","r","g","/","t","1">>
urlOrchestrator == <<"h","t","t","p","s",":","/","/","h","/","o","r","g","/","T","1","/","o","r","c","h","e","s","t","r","a","t","o","r","_">>
sT1 == <<"T","1">>
idA == <<"i","d","A">>
idB == <<"i","d","B">>
secretA == <<"s","c","A">>
secretB == <<"s","c","B">>
sZero == <<"0">>
sClientCredentials == <<"c","l","i","e","n","t","_","c","r","e","d","e","n","t","i","a","l","s">>
\* the creation times of the jobs behind a stable remote side, and names of folders
tCreatedPrefix == <<"2","0","2","4","-","0","1","-","0","1","T","0","9",":","0","0",":">>
tCreatedSuffix == <<".","0","0","0","Z">>
sArchive == <<"A","r","c","h","i","v","e">>

-----------------------------------------------------------------------------
(* Token manager and request executor *)

\* ensureToken: const buffer = 5 * 60 * 1000
TokenBuffer == 5 * 60 * 1000

\* the truthiness of a string | null
Truthy(s) == s # None /\ s[1] # <<>>

\* faulty variant of CachedTokenValid: a buffer of ten minutes
CachedTokenValidTenMinutes(tok, exp, t) ==
  /\ Truthy(tok)
  /\ exp # None
  /\ t < exp[1] - 2 * TokenBuffer

\* ensureToken, the test under which the cached token is returned
CachedTokenValid(tok, exp, t) ==
  /\ Truthy(tok)
  /\ exp # None
  /\ t < exp[1] - TokenBuffer

\* faulty variant of ExpiryOf: expires_in taken for milliseconds
ExpiryInMilliseconds(t, expires_in) == t + expires_in

\* new Date(Date.now() + data.expires_in * 1000)
ExpiryOf(t, expires_in) == t + expires_in * 1000

\* faulty variant of AuthErrorMessage: the client id is reported with the failure
AuthErrorWithClientId(body) == sFailedToObtain \o body \o sCloseColon \o config.clientId

\* faulty variant of AuthErrorMessage: the body text is left out
AuthErrorWithoutBody(body) == sFailedToObtain

\* throw new Error(`Failed to obtain access token: ${error}`)
AuthErrorMessage(body) == sFailedToObtain \o body

\* throw new Error(`API request failed (${response.status}): ${error}`)
ApiErrorMessage(status, body) ==
  sApiRequestFailed \o ToStr(status) \o sCloseColon \o body

\* faulty variant of getHeaders: the Authorization header lacks the token
getHeadersWithoutToken(tok, folderId) ==
  LET headers == ("Authorization" :> sBearer) @@
                 ("Content-Type" :> sContentTypeJson)
  IN  IF folderId # None
      THEN ("X-UIPATH-OrganizationUnitId" :> ToStr(folderId[1])) @@ headers
      ELSE headers

\* the headers of a resource request: the bearer token, the content type and,
\* if (folderId !== undefined), the folder
getHeaders(tok, folderId) ==
  LET headers == ("Authorization" :> (sBearer \o tok)) @@
                 ("Content-Type" :> sContentTypeJson)
  IN  IF folderId # None
      THEN ("X-UIPATH-OrganizationUnitId" :> ToStr(folderId[1])) @@ headers
      ELSE headers

\* faulty variant of getFolderId: the configured default comes first
getFolderIdDefaultFirst(folderId) == OrElse(defaultFolderId, folderId)

\* this.getFolderId(folderId)
getFolderId(folderId) == OrElse(folderId, defaultFolderId)

\* s.toLowerCase(), on the letters of the model's texts
UpperCase == <<"A","B","C","D","E","F","G","H","I","J","K","L","M",
               "N","O","P","Q","R","S","T","U","V","W","X","Y","Z">>
LowerCase == <<"a","b","c","d","e","f","g","h","i","j","k","l","m",
               "n","o","p","q","r","s","t","u","v","w","x","y","z">>
LowerChar(c) ==
  IF \E i \in 1..26 : UpperCase[i] = c
  THEN LowerCase[CHOOSE i \in 1..26 : UpperCase[i] = c] ELSE c
toLowerCase(s) == [i \in 1..Len(s) |-> LowerChar(s[i])]

\* s.endsWith(suffix)
endsWith(s, suffix) ==
  Len(suffix) <= Len(s) /\ SubSeq(s, Len(s) - Len(suffix) + 1, Len(s)) = suffix

\* base.replace(/\/$/, "")
WithoutTrailingSlash(base) ==
  IF endsWith(base, sSlash) THEN SubSeq(base, 1, Len(base) - 1) ELSE base

\* buildOrchestratorUrl, the root of the resource API
TenantUrl(base, tenant) ==
  IF endsWith(toLowerCase(base), sSlash \o toLowerCase(tenant))
  THEN base \o sSlashOrchestrator_
  ELSE base \o sSlash \o tenant \o sSlashOrchestrator_
buildOrchestratorUrl(cfg) ==
  IF ~Includes(cfg.baseUrl, sOrchestrator_)
  THEN TenantUrl(WithoutTrailingSlash(cfg.baseUrl), cfg.tenantName)
  ELSE cfg.baseUrl

\* the arguments of this.request(method, endpoint, params, body, folderId)
Request(endpoint, params, folderId) ==
  [method |-> "GET", endpoint |-> endpoint, params |-> params, folderId |-> folderId]

NoRequest == [method |-> "none"]
NoWire == [kind |-> "none"]
NoCall == [op |-> "none"]
NoFrame == [attempt |-> 0]
NoResult == [ok |-> TRUE, value |-> None, message |-> <<>>]
\* requests: this.request calls; exchanges, resources: fetches sent; inRequest: the
\* exchanges of the this.request in progress; denied: exchanges answered non-2xx
NoTraffic == [requests |-> 0, exchanges |-> 0, resources |-> 0, inRequest |-> 0, denied |-> 0]

\* the POST that ensureToken sends to the identity endpoint: its body carries the
\* grant type and the credentials of the configuration
IdentityWire ==
  [kind |-> "identity", method |-> "POST",
   body |-> [grant_type |-> sClientCredentials, client_id |-> config.clientId,
             client_secret |-> config.clientSecret]]

\* the fetch(url, options) of request
ResourceWire(r, tok) ==
  [kind |-> "resource", method |-> r.method, endpoint |-> r.endpoint,
   params |-> r.params, headers |-> getHeaders(tok, r.folderId)]

\* what this.request resolves to, or rejects with
Resolved(data) == [ok |-> TRUE, data |-> data, message |-> <<>>]
Rejected(message) == [ok |-> FALSE, data |-> None, message |-> message]

\* how an operation goes on after a this.request settled: it issues another
\* request, returns or throws.  fresh: the request opens a new listing call.
DoRequest(r, fr, fresh) ==
  [kind |-> "request", req |-> r, frame |-> fr, fresh |-> fresh,
   value |-> None, message |-> <<>>]
DoReturn(v, fr) ==
  [kind |-> "return", req |-> NoRequest, frame |-> fr, fresh |-> FALSE,
   value |-> v, message |-> <<>>]
DoThrow(m, fr) ==
  [kind |-> "throw", req |-> NoRequest, frame |-> fr, fresh |-> FALSE,
   value |-> None, message |-> m]

-----------------------------------------------------------------------------
(* Query builder *)

\* the options record of an operation; an option left out is None
NoOptions ==
  [folderId |-> None, top |-> None, skip |-> None, orderBy |-> None,
   state |-> None, releaseName |-> None, queueId |-> None, status |-> None]

\* n || d for an optional number
NumberOr(n, d) == IF n # None /\ n[1] # 0 THEN n[1] ELSE d

\* s || d for an optional string
StringOr(s, d) == IF Truthy(s) THEN s[1] ELSE d

\* $top: String(options.top || 100), $skip: String(options.skip || 0)
Paging(options) ==
  ("$top" :> ToStr(NumberOr(options.top, 100))) @@
  ("$skip" :> ToStr(NumberOr(options.skip, 0)))

\* if (filters.length > 0) params.$filter = filters.join(" and ")
WithFilter(params, filters) ==
  IF Len(filters) > 0 THEN ("$filter" :> Join(filters, sAnd)) @@ params ELSE params

\* delete params[key]
Delete(params, key) == [k \in DOMAIN params \ {key} |-> params[k]]

\* encodeURIComponent, on the characters the model's names are made of
EncodeChar(c) ==
  CASE c = " " -> <<"%", "2", "0">>
    [] c = "%" -> <<"%", "2", "5">>
    [] c = "&" -> <<"%", "2", "6">>
    [] c = "/" -> <<"%", "2", "F">>
    [] OTHER -> <<c>>

RECURSIVE encodeURIComponent(_)
encodeURIComponent(s) ==
  IF s = <<>> THEN <<>> ELSE EncodeChar(Head(s)) \o encodeURIComponent(Tail(s))

\* getFolders, getRobots, getMachines, getRobotLogs: $top, $skip, $orderby, $count
OrderedParams(options, defaultOrder) ==
  ("$count" :> sTrue) @@
  ("$orderby" :> StringOr(options.orderBy, defaultOrder)) @@
  Paging(options)

\* getRobots: the route depends on the folder
getRobotsEndpoint(effectiveFolderId) ==
  IF effectiveFolderId # None /\ effectiveFolderId[1] # 0
  THEN epRobotsFromFolder \o ToStr(effectiveFolderId[1]) \o sCloseParen
  ELSE epRobots

\* getSessions: $top, $skip, the State filter, then $count inside the try
getSessionsParams(options) ==
  ("$count" :> sTrue) @@
  WithFilter(Paging(options),
             IF Truthy(options.state)
             THEN <<sStateEq \o options.state[1] \o sQuote>> ELSE <<>>)

\* getAssets
getAssetsParams(options) ==
  ("$count" :> sTrue) @@ ("$orderby" :> sNameAsc) @@ Paging(options)

\* getProcessSchedules (no enabled filter given)
getProcessSchedulesParams(options) == ("$count" :> sTrue) @@ Paging(options)

\* getAuditLogs (no filter given)
getAuditLogsParams(options) ==
  ("$count" :> sTrue) @@ ("$orderby" :> sExecutionTimeDesc) @@ Paging(options)

\* getQueueItems: buildParams(includeCount, orderBy)
getQueueItemsBuildParams(options, includeCount, orderBy) ==
  LET p0 == Paging(options)
      p1 == IF Truthy(orderBy) THEN ("$orderby" :> orderBy[1]) @@ p0 ELSE p0
      p2 == IF includeCount THEN ("$count" :> sTrue) @@ p1 ELSE p1
      f1 == IF options.queueId # None /\ options.queueId[1] # 0
            THEN <<sQueueDefinitionIdEq \o ToStr(options.queueId[1])>> ELSE <<>>
      f2 == IF Truthy(options.status)
            THEN <<sStatusEq \o options.status[1] \o sQuote>> ELSE <<>>
  IN  WithFilter(p2, f1 \o f2)

\* faulty variant of getJobsBuildParams: the retry leaves the filters out
getJobsBuildParamsUnfiltered(options, includeCount, orderBy) ==
  LET p0 == Paging(options)
      p1 == IF Truthy(orderBy) THEN ("$orderby" :> orderBy[1]) @@ p0 ELSE p0
      p2 == IF includeCount THEN ("$count" :> sTrue) @@ p1 ELSE p1
      f1 == IF includeCount /\ Truthy(options.state)
            THEN <<sStateEq \o options.state[1] \o sQuote>> ELSE <<>>
  IN  WithFilter(p2, f1)

\* getJobs: buildParams(includeCount, orderBy)
getJobsBuildParams(options, includeCount, orderBy) ==
  LET p0 == Paging(options)
      p1 == IF Truthy(orderBy) THEN ("$orderby" :> orderBy[1]) @@ p0 ELSE p0
      p2 == IF includeCount THEN ("$count" :> sTrue) @@ p1 ELSE p1
      f1 == IF Truthy(options.state)
            THEN <<sStateEq \o options.state[1] \o sQuote>> ELSE <<>>
      f2 == IF Truthy(options.releaseName)
            THEN <<sReleaseNameEq \o encodeURIComponent(options.releaseName[1]) \o sQuote>>
            ELSE <<>>
  IN  WithFilter(p2, f1 \o f2)

-----------------------------------------------------------------------------
(* Entity operations: the first request, the catch clause, the retry, the result *)

\* the listings with the narrow test of the error message
MatchesQueryOptions(message) == Includes(message, sInvalidODataQueryOptions)

\* faulty variant of MatchesInvalidOData: every error is taken for a rejected query
MatchesAnyError(message) == TRUE

\* the listings with the wide test of the error message
MatchesInvalidOData(message) == Includes(message, sInvalidOData)

\* the first this.request of a listing
FirstRequest(op, options) ==
  CASE op = "getFolders" ->
         Request(epFolders, OrderedParams(options, sDisplayNameAsc), None)
    [] op = "getRobots" ->
         Request(getRobotsEndpoint(getFolderId(options.folderId)),
                 OrderedParams(options, sNameAsc), None)
    [] op = "getMachines" ->
         Request(epMachines, OrderedParams(options, sNameAsc), None)
    [] op = "getRobotLogs" ->
         Request(epRobotLogs, OrderedParams(options, sTimeStampDesc),
                 getFolderId(options.folderId))
    [] op = "getQueueDefinitions" ->
         Request(epQueueDefinitions, <<>>, getFolderId(options.folderId))
    [] op = "getSessions" ->
         Request(epSessions, getSessionsParams(options), getFolderId(options.folderId))
    [] op = "getAssets" ->
         Request(epAssets, getAssetsParams(options), getFolderId(options.folderId))
    [] op = "getProcessSchedules" ->
         Request(epProcessSchedules, getProcessSchedulesParams(options),
                 getFolderId(options.folderId))
    [] op = "getAuditLogs" ->
         Request(epAuditLogs, getAuditLogsParams(options), None)
    [] op = "getQueueItems" ->
         Request(epQueueItems,
                 getQueueItemsBuildParams(options, TRUE,
                                          Some(StringOr(options.orderBy, sCreationTimeDesc))),
                 getFolderId(options.folderId))
    [] op = "getJobs" ->
         Request(epJobs,
                 getJobsBuildParams(options, TRUE,
                                    Some(StringOr(options.orderBy, sCreationTimeDesc))),
                 getFolderId(options.folderId))

\* whether the catch clause of the listing retries on this error message
CatchRetries(op, message) ==
  CASE op \in {"getQueueItems", "getJobs"} -> MatchesQueryOptions(message)
    [] op \in {"getSessions", "getAssets", "getProcessSchedules", "getAuditLogs"} ->
         MatchesInvalidOData(message)
    [] OTHER -> FALSE

\* the this.request of the catch clause
RetryRequest(op, options) ==
  CASE op = "getQueueItems" ->
         Request(epQueueItems, getQueueItemsBuildParams(options, FALSE, None),
                 getFolderId(options.folderId))
    [] op = "getJobs" ->
         Request(epJobs, getJobsBuildParams(options, FALSE, None),
                 getFolderId(options.folderId))
    [] op = "getSessions" ->
         Request(epSessions, Delete(getSessionsParams(options), "$count"),
                 getFolderId(options.folderId))
    [] op = "getAssets" ->
         Request(epAssets, Delete(getAssetsParams(options), "$count"),
                 getFolderId(options.folderId))
    [] op = "getProcessSchedules" ->
         Request(epProcessSchedules, Delete(getProcessSchedulesParams(options), "$count"),
                 getFolderId(options.folderId))
    [] op = "getAuditLogs" ->
         Request(epAuditLogs,
                 Delete(Delete(getAuditLogsParams(options), "$count"), "$orderby"),
                 None)

\* faulty variant of CountOrNull: the count of the response is ignored
CountNeverKnown(data) == None

\* count: data["@odata.count"] ?? null
CountOrNull(data) == data.count

\* count: data.value.length
PageLength(data) == Some(Len(data.value))

\* what the listing returns for the response body `data` of its attempt-th request;
\* getQueueDefinitions returns the bare data.value
Returned(op, data, attempt) ==
  IF op = "getQueueDefinitions" THEN [items |-> data.value, count |-> None]
  ELSE IF attempt = 2 /\ op \in {"getSessions", "getAssets", "getProcessSchedules",
                                 "getAuditLogs"}
  THEN [items |-> data.value, count |-> PageLength(data)]
  ELSE [items |-> data.value, count |-> CountOrNull(data)]

\* a listing after its attempt-th this.request settled with `outcome`
ListingStep(op, options, attempt, outcome) ==
  IF outcome.ok
  THEN DoReturn(Some(Returned(op, outcome.data[1], attempt)), [attempt |-> attempt])
  ELSE IF attempt = 1 /\ CatchRetries(op, outcome.message)
  THEN DoRequest(RetryRequest(op, options), [attempt |-> 2], FALSE)
  ELSE DoThrow(outcome.message, [attempt |-> attempt])

-----------------------------------------------------------------------------
(* Job statistics *)

\* getJobStats: const states
JobStates == <<sPending, sRunning, sSuccessful, sFaulted, sStopped, sTerminated>>

\* getJobStats: the initial stats, and the reset of the fallback
ZeroStats ==
  [totalJobs |-> 0, pendingJobs |-> 0, runningJobs |-> 0, successfulJobs |-> 0,
   faultedJobs |-> 0, stoppedJobs |-> 0, successRate |-> None]

\* faulty variant of CountState: the count of Terminated replaces that of Stopped
CountStateWithoutFolding(stats, state, count) ==
  LET s == [stats EXCEPT !.totalJobs = @ + count]
  IN  CASE state = sPending -> [s EXCEPT !.pendingJobs = count]
        [] state = sRunning -> [s EXCEPT !.runningJobs = count]
        [] state = sSuccessful -> [s EXCEPT !.successfulJobs = count]
        [] state = sFaulted -> [s EXCEPT !.faultedJobs = count]
        [] state \in {sStopped, sTerminated} -> [s EXCEPT !.stoppedJobs = count]
        [] OTHER -> s

\* the loop body of the per-state counting: totalJobs += count and the switch
CountState(stats, state, count) ==
  LET s == [stats EXCEPT !.totalJobs = @ + count]
  IN  CASE state = sPending -> [s EXCEPT !.pendingJobs = count]
        [] state = sRunning -> [s EXCEPT !.runningJobs = count]
        [] state = sSuccessful -> [s EXCEPT !.successfulJobs = count]
        [] state = sFaulted -> [s EXCEPT !.faultedJobs = count]
        [] state \in {sStopped, sTerminated} -> [s EXCEPT !.stoppedJobs = @ + count]
        [] OTHER -> s

\* the switch of the fallback's loop over the fetched jobs
TallyJob(stats, job) ==
  CASE job.State = sPending -> [stats EXCEPT !.pendingJobs = @ + 1]
    [] job.State = sRunning -> [stats EXCEPT !.runningJobs = @ + 1]
    [] job.State = sSuccessful -> [stats EXCEPT !.successfulJobs = @ + 1]
    [] job.State = sFaulted -> [stats EXCEPT !.faultedJobs = @ + 1]
    [] job.State \in {sStopped, sTerminated} -> [stats EXCEPT !.stoppedJobs = @ + 1]
    [] OTHER -> stats

RECURSIVE TallyJobs(_, _)
TallyJobs(stats, jobs) ==
  IF jobs = <<>> THEN stats ELSE TallyJobs(TallyJob(stats, Head(jobs)), Tail(jobs))

\* faulty variant of ResetStats: the counters gathered so far are kept
KeepStats(stats) == stats

\* the fallback begins by resetting every counter
ResetStats(stats) == ZeroStats

\* the fallback after its getJobs returned: totalJobs = jobs.length, then the loop
FallbackTally(stats, jobs) == TallyJobs([stats EXCEPT !.totalJobs = Len(jobs)], jobs)

\* (successful / completed) * 100, kept as the exact fraction num / den
Rate(successful, completed) == [num |-> successful * 100, den |-> completed]

\* faulty variant of WithSuccessRate: the rate is computed whatever the counts
WithSuccessRateAlways(stats) ==
  [stats EXCEPT !.successRate =
     Some(Rate(stats.successfulJobs, stats.successfulJobs + stats.faultedJobs))]

\* the end of getJobStats: the success rate when successful + faulted > 0
WithSuccessRate(stats) ==
  LET completed == stats.successfulJobs + stats.faultedJobs
  IN  IF completed > 0
      THEN [stats EXCEPT !.successRate = Some(Rate(stats.successfulJobs, completed))]
      ELSE stats

\* the options of the getJobs call that getJobStats has in progress
StatsJobsOptions(options, fr) ==
  IF fr.useFallback
  THEN [NoOptions EXCEPT !.top = Some(1000), !.folderId = getFolderId(options.folderId)]
  ELSE [NoOptions EXCEPT !.state = Some(JobStates[fr.i]), !.top = Some(1),
                         !.folderId = getFolderId(options.folderId)]

\* getJobStats begins its fallback
StartFallback(options, fr) ==
  LET f == [fr EXCEPT !.useFallback = TRUE, !.stats = ResetStats(fr.stats), !.attempt = 1]
  IN  DoRequest(FirstRequest("getJobs", StatsJobsOptions(options, f)), f, TRUE)

\* getJobStats after a this.request of its getJobs call in progress settled
getJobStatsStep(options, fr, outcome) ==
  LET inner == ListingStep("getJobs", StatsJobsOptions(options, fr), fr.attempt, outcome)
  IN  IF inner.kind = "request"
      THEN DoRequest(inner.req, [fr EXCEPT !.attempt = 2], FALSE)
      ELSE IF fr.useFallback
      THEN IF inner.kind = "throw"
           THEN DoThrow(inner.message, fr)
           ELSE DoReturn(Some(WithSuccessRate(FallbackTally(fr.stats, inner.value[1].items))), fr)
      ELSE IF inner.kind = "throw" \/ inner.value[1].count = None
      THEN StartFallback(options, fr)
      ELSE LET stats == CountState(fr.stats, JobStates[fr.i], inner.value[1].count[1])
               next == [fr EXCEPT !.i = @ + 1, !.stats = stats, !.attempt = 1]
           IN  IF fr.i < Len(JobStates)
               THEN DoRequest(FirstRequest("getJobs", StatsJobsOptions(options, next)),
                              next, TRUE)
               ELSE DoReturn(Some(WithSuccessRate(stats)), [fr EXCEPT !.stats = stats])

-----------------------------------------------------------------------------
(* Queue statistics *)

\* faulty variant of QueueStatuses: the completed items are asked for first
QueueStatusesCompletedFirst == <<sSuccessful, sFailed, sNew, sInProgress, sAbandoned>>

\* getQueueStats: const statuses
QueueStatuses == <<sNew, sInProgress, sSuccessful, sFailed, sAbandoned>>

\* getQueueStats: the initial stats
ZeroQueueStats(queueId, queueName) ==
  [queueId |-> queueId, queueName |-> queueName, totalItems |-> 0, newItems |-> 0,
   inProgressItems |-> 0, successfulItems |-> 0, failedItems |-> 0,
   abandonedItems |-> 0, successRate |-> None]

\* faulty variant of CountQueueStatus: Abandoned items are left out of the total
CountQueueStatusWithoutAbandoned(stats, status, itemCount) ==
  CASE status = sNew -> [stats EXCEPT !.newItems = itemCount, !.totalItems = @ + itemCount]
    [] status = sInProgress ->
         [stats EXCEPT !.inProgressItems = itemCount, !.totalItems = @ + itemCount]
    [] status = sSuccessful ->
         [stats EXCEPT !.successfulItems = itemCount, !.totalItems = @ + itemCount]
    [] status = sFailed -> [stats EXCEPT !.failedItems = itemCount, !.totalItems = @ + itemCount]
    [] status = sAbandoned -> [stats EXCEPT !.abandonedItems = itemCount]
    [] OTHER -> stats

\* the loop body of getQueueStats: totalItems += itemCount and the switch
CountQueueStatus(stats, status, itemCount) ==
  LET s == [stats EXCEPT !.totalItems = @ + itemCount]
  IN  CASE status = sNew -> [s EXCEPT !.newItems = itemCount]
        [] status = sInProgress -> [s EXCEPT !.inProgressItems = itemCount]
        [] status = sSuccessful -> [s EXCEPT !.successfulItems = itemCount]
        [] status = sFailed -> [s EXCEPT !.failedItems = itemCount]
        [] status = sAbandoned -> [s EXCEPT !.abandonedItems = itemCount]
        [] OTHER -> s

\* the end of getQueueStats: the success rate when successful + failed > 0
WithQueueSuccessRate(stats) ==
  LET completed == stats.successfulItems + stats.failedItems
  IN  IF completed > 0
      THEN [stats EXCEPT !.successRate = Some(Rate(stats.successfulItems, completed))]
      ELSE stats

\* the options of the getQueueItems call that getQueueStats has in progress
QueueStatsItemsOptions(options, fr) ==
  [NoOptions EXCEPT !.queueId = Some(options.queueId),
                    !.status = Some(QueueStatuses[fr.i]),
                    !.folderId = getFolderId(options.folderId),
                    !.top = Some(1)]

\* faulty variant of getQueueStatsStep: an unknown count is replaced by the number
\* of the items of the page
getQueueStatsStepTallying(options, fr, outcome) ==
  LET inner == ListingStep("getQueueItems", QueueStatsItemsOptions(options, fr),
                           fr.attempt, outcome)
  IN  IF inner.kind = "request"
      THEN DoRequest(inner.req, [fr EXCEPT !.attempt = 2], FALSE)
      ELSE IF inner.kind = "throw"
      THEN DoThrow(inner.message, fr)
      ELSE LET itemCount == NumberOr(inner.value[1].count, Len(inner.value[1].items))
               stats == CountQueueStatus(fr.stats, QueueStatuses[fr.i], itemCount)
               next == [fr EXCEPT !.i = @ + 1, !.stats = stats, !.attempt = 1]
           IN  IF fr.i < Len(QueueStatuses)
               THEN DoRequest(FirstRequest("getQueueItems",
                                           QueueStatsItemsOptions(options, next)),
                              next, TRUE)
               ELSE DoReturn(Some(WithQueueSuccessRate(stats)),
                             [fr EXCEPT !.stats = stats])

\* getQueueStats after a this.request of its getQueueItems call in progress settled
getQueueStatsStep(options, fr, outcome) ==
  LET inner == ListingStep("getQueueItems", QueueStatsItemsOptions(options, fr),
                           fr.attempt, outcome)
  IN  IF inner.kind = "request"
      THEN DoRequest(inner.req, [fr EXCEPT !.attempt = 2], FALSE)
      ELSE IF inner.kind = "throw"
      THEN DoThrow(inner.message, fr)
      ELSE LET itemCount == NumberOr(inner.value[1].count, 0)
               stats == CountQueueStatus(fr.stats, QueueStatuses[fr.i], itemCount)
               next == [fr EXCEPT !.i = @ + 1, !.stats = stats, !.attempt = 1]
           IN  IF fr.i < Len(QueueStatuses)
               THEN DoRequest(FirstRequest("getQueueItems",
                                           QueueStatsItemsOptions(options, next)),
                              next, TRUE)
               ELSE DoReturn(Some(WithQueueSuccessRate(stats)),
                             [fr EXCEPT !.stats = stats])

\* getQueueStats up to its first this.request
getQueueStatsStart(options) ==
  LET f == [attempt |-> 1, i |-> 1,
            stats |-> ZeroQueueStats(options.queueId, options.queueName)]
  IN  DoRequest(FirstRequest("getQueueItems", QueueStatsItemsOptions(options, f)), f, TRUE)

-----------------------------------------------------------------------------
(* Durations *)

\* the value of a decimal digit, -1 for another character
DigitValue(c) == IF \E d \in 0..9 : Digit(d) = c THEN CHOOSE d \in 0..9 : Digit(d) = c ELSE -1

\* the number written in s[from..to], -1 when a character is not a digit
RECURSIVE NumberAt(_, _, _)
NumberAt(s, from, to) ==
  IF from > to THEN 0
  ELSE LET high == NumberAt(s, from, to - 1)
           low == DigitValue(s[to])
       IN  IF high < 0 \/ low < 0 THEN -1 ELSE high * 10 + low

\* the days from 1970-01-01 to the day d of the month m of the year y
DaysFromCivil(y, m, d) ==
  LET yy == IF m <= 2 THEN y - 1 ELSE y
      mm == IF m <= 2 THEN m + 9 ELSE m - 3
  IN  365 * yy + (yy \div 4) - (yy \div 100) + (yy \div 400) +
      ((153 * mm + 2) \div 5) + d - 1 - 719468

\* new Date(s).getTime() for a text s of the form YYYY-MM-DDTHH:MM:SS.mmmZ, and
\* None (NaN) for the other texts.  The time is s * 1000 + ms milliseconds since
\* the epoch, kept as its two parts: the product is beyond 32 bits.
TimeOf(y, m, d, h, mi, sec, ms) ==
  IF /\ \A n \in {y, m, d, h, mi, sec, ms} : n >= 0
     /\ m \in 1..12 /\ d \in 1..31
     /\ h <= 23 /\ mi <= 59 /\ sec <= 59
  THEN Some([s |-> ((DaysFromCivil(y, m, d) * 24 + h) * 60 + mi) * 60 + sec, ms |-> ms])
  ELSE None
DateGetTime(s) ==
  IF /\ Len(s) = 24
     /\ <<s[5], s[8], s[11], s[14], s[17], s[20], s[24]>> =
          <<"-", "-", "T", ":", ":", ".", "Z">>
  THEN TimeOf(NumberAt(s, 1, 4), NumberAt(s, 6, 7), NumberAt(s, 9, 10), NumberAt(s, 12, 13),
              NumberAt(s, 15, 16), NumberAt(s, 18, 19), NumberAt(s, 21, 23))
  ELSE None

\* faulty variant of MathRound: the fraction is dropped
MathTrunc(n, d) == n \div d

\* Math.round(n / d) for d > 0: halves go up
MathRound(n, d) == (2 * n + d) \div (2 * d)

\* computeDuration(startTime, endTime); null is None
SecondsBetween(start, end) ==
  IF start = None \/ end = None THEN None
  ELSE Some(MathRound((end[1].s - start[1].s) * 1000 + end[1].ms - start[1].ms, 1000))
computeDuration(startTime, endTime) ==
  IF ~Truthy(startTime) \/ ~Truthy(endTime) THEN None
  ELSE SecondsBetween(DateGetTime(startTime[1]), DateGetTime(endTime[1]))

-----------------------------------------------------------------------------
(* Composite analytics: process performance, faulted jobs, release lookup *)

\* value.replace(/'/g, "''")
RECURSIVE escapeODataString(_)
escapeODataString(value) ==
  IF value = <<>> THEN <<>>
  ELSE (IF Head(value) = "'" THEN <<"'", "'">> ELSE <<Head(value)>>) \o
       escapeODataString(Tail(value))

\* durations.reduce((a, b) => a + b, 0), Math.min(...durations), Math.max(...durations)
RECURSIVE SumOf(_)
SumOf(ns) == IF ns = <<>> THEN 0 ELSE Head(ns) + SumOf(Tail(ns))
MinOf(ns) == CHOOSE n \in {ns[k] : k \in 1..Len(ns)} : \A k \in 1..Len(ns) : n <= ns[k]
MaxOf(ns) == CHOOSE n \in {ns[k] : k \in 1..Len(ns)} : \A k \in 1..Len(ns) : n >= ns[k]

\* successful.map(j => this.computeDuration(j.StartTime, j.EndTime)).filter(d => d !== null)
RECURSIVE DurationsOf(_)
DurationsOf(jobs) ==
  IF jobs = <<>> THEN <<>>
  ELSE computeDuration(Head(jobs).StartTime, Head(jobs).EndTime) \o DurationsOf(Tail(jobs))

\* faulty variant of InStates: the jobs are not filtered
InAnyState(jobs, states) == jobs

\* jobs.filter(j => j.State is one of states)
InStates(jobs, states) ==
  LET Test(j) == j.State \in states
  IN  SelectSeq(jobs, Test)

\* getProcessPerformance, from the jobs that getJobs returned to the result
PerformanceOver(processName, jobs, successful, faulted, durations) ==
  [processName |-> processName,
   totalExecutions |-> Len(jobs),
   successful |-> successful,
   faulted |-> faulted,
   stopped |-> Len(InStates(jobs, {sStopped, sTerminated})),
   running |-> Len(InStates(jobs, {sRunning})),
   pending |-> Len(InStates(jobs, {sPending})),
   successRate |-> IF successful + faulted > 0
                   THEN Some(Rate(successful, successful + faulted))
                   ELSE None,
   avgDurationSeconds |-> IF Len(durations) > 0
                          THEN Some(MathRound(SumOf(durations), Len(durations)))
                          ELSE None,
   minDurationSeconds |-> IF Len(durations) > 0 THEN Some(MinOf(durations)) ELSE None,
   maxDurationSeconds |-> IF Len(durations) > 0 THEN Some(MaxOf(durations)) ELSE None,
   recentJobs |-> SubSeq(jobs, 1, IF Len(jobs) < 10 THEN Len(jobs) ELSE 10)]
Performance(processName, jobs) ==
  PerformanceOver(processName, jobs, Len(InStates(jobs, {sSuccessful})),
                  Len(InStates(jobs, {sFaulted})),
                  DurationsOf(InStates(jobs, {sSuccessful})))

\* the options of the getJobs call of getProcessPerformance
PerformanceJobsOptions(options) ==
  [NoOptions EXCEPT !.releaseName = Some(options.processName),
                    !.folderId = getFolderId(options.folderId),
                    !.top = Some(NumberOr(options.top, 100))]

\* getProcessPerformance after a this.request of its getJobs call settled
getProcessPerformanceStep(options, fr, outcome) ==
  LET inner == ListingStep("getJobs", PerformanceJobsOptions(options), fr.attempt, outcome)
  IN  IF inner.kind = "request" THEN DoRequest(inner.req, [fr EXCEPT !.attempt = 2], FALSE)
      ELSE IF inner.kind = "throw" THEN DoThrow(inner.message, fr)
      ELSE DoReturn(Some(Performance(options.processName, inner.value[1].items)), fr)

\* getFaultedJobs: params, with $orderby unless the catch clause deleted it
getFaultedJobsParams(options, ordered) ==
  LET p0 == "$top" :> ToStr(NumberOr(options.top, 50))
      p1 == IF ordered THEN ("$orderby" :> sCreationTimeDesc) @@ p0 ELSE p0
      f1 == IF Truthy(options.releaseName)
            THEN <<sReleaseNameEq \o escapeODataString(options.releaseName[1]) \o sQuote>>
            ELSE <<>>
      f2 == IF Truthy(options.startTime)
            THEN <<sCreationTimeGe \o options.startTime[1]>> ELSE <<>>
      f3 == IF Truthy(options.endTime)
            THEN <<sCreationTimeLe \o options.endTime[1]>> ELSE <<>>
  IN  ("$filter" :> Join(<<sStateEqFaulted>> \o f1 \o f2 \o f3, sAnd)) @@ p1

\* getFaultedJobs: jobs.map(job => ({..., durationSeconds: computeDuration(...)}))
RECURSIVE FaultedJobSummaries(_)
FaultedJobSummaries(jobs) ==
  IF jobs = <<>> THEN <<>>
  ELSE LET job == Head(jobs)
       IN  <<[Id |-> job.Id, ReleaseName |-> job.ReleaseName, State |-> job.State,
              StartTime |-> job.StartTime, EndTime |-> job.EndTime,
              durationSeconds |-> computeDuration(job.StartTime, job.EndTime)]>> \o
           FaultedJobSummaries(Tail(jobs))

\* faulty variant of getFaultedJobsStep: a failure yields an empty list
getFaultedJobsQuietly(options, fr, outcome) ==
  IF outcome.ok
  THEN DoReturn(Some(FaultedJobSummaries(outcome.data[1].value)), fr)
  ELSE DoReturn(Some(<<>>), fr)

\* getFaultedJobs after its attempt-th this.request settled
getFaultedJobsStep(options, fr, outcome) ==
  IF outcome.ok
  THEN DoReturn(Some(FaultedJobSummaries(outcome.data[1].value)), fr)
  ELSE IF fr.attempt = 1 /\ MatchesInvalidOData(outcome.message)
  THEN DoRequest(Request(epJobs, getFaultedJobsParams(options, FALSE),
                         getFolderId(options.folderId)),
                 [fr EXCEPT !.attempt = 2], FALSE)
  ELSE DoThrow(outcome.message, fr)

\* getReleases(processKey, folderId): its this.request
getReleasesRequest(processKey, folderId) ==
  Request(epReleases,
          IF Truthy(processKey)
          THEN "$filter" :> (sProcessKeyEq \o encodeURIComponent(processKey[1]) \o sQuote)
          ELSE <<>>,
          getFolderId(folderId))

\* findReleaseByNameOrKey: the this.request with the exact-name filter
NameRequest(options) ==
  Request(epReleases,
          "$filter" :> (sNameEq \o escapeODataString(options.nameOrKey) \o sQuote),
          getFolderId(options.folderId))

\* data.value[0] || null
FirstOrNull(value) == IF Len(value) > 0 THEN Some(value[1]) ELSE None

\* findReleaseByNameOrKey after the this.request of its stage (key, then name) settled
findReleaseByNameOrKeyStep(options, fr, outcome) ==
  IF ~outcome.ok THEN DoThrow(outcome.message, fr)
  ELSE IF fr.stage = "key"
  THEN LET releasesByKey == outcome.data[1].value
       IN  IF Len(releasesByKey) > 0
           THEN DoReturn(Some(releasesByKey[1]), [fr EXCEPT !.releasesByKey = Some(releasesByKey)])
           ELSE DoRequest(NameRequest(options),
                          [fr EXCEPT !.stage = "name", !.releasesByKey = Some(releasesByKey)],
                          FALSE)
  ELSE DoReturn(FirstOrNull(outcome.data[1].value), fr)

-----------------------------------------------------------------------------
(* Two pages of the folders, one after the other *)

\* the options of the two calls: getFolders({top: k, skip: 0}), getFolders({top: k, skip: k})
PageOptions(k, page) ==
  [NoOptions EXCEPT !.top = Some(k), !.skip = Some(IF page = 1 THEN 0 ELSE k)]

\* the caller up to the first this.request of its first getFolders call
paginateFoldersStart(options) ==
  DoRequest(FirstRequest("getFolders", PageOptions(options.k, 1)),
            [attempt |-> 1, page |-> 1, page1 |-> None], TRUE)

\* the caller after a this.request of its getFolders call in progress settled:
\* page1 is kept and the second call made, then both pages are at hand
paginateFoldersStep(options, fr, outcome) ==
  LET inner == ListingStep("getFolders", PageOptions(options.k, fr.page), fr.attempt, outcome)
  IN  IF inner.kind = "throw" THEN DoThrow(inner.message, fr)
      ELSE IF fr.page = 1
      THEN DoRequest(FirstRequest("getFolders", PageOptions(options.k, 2)),
                     [fr EXCEPT !.page = 2, !.page1 = Some(inner.value[1].items)], TRUE)
      ELSE DoReturn(Some([page1 |-> fr.page1[1], page2 |-> inner.value[1].items]), fr)

-----------------------------------------------------------------------------
(* The public operations *)

\* the public operation c after a this.request settled with `outcome`
OperationStep(c, fr, outcome) ==
  CASE c.op = "getJobStats" -> getJobStatsStep(c.options, fr, outcome)
    [] c.op = "getQueueStats" -> getQueueStatsStep(c.options, fr, outcome)
    [] c.op = "getProcessPerformance" -> getProcessPerformanceStep(c.options, fr, outcome)
    [] c.op = "getFaultedJobs" -> getFaultedJobsStep(c.options, fr, outcome)
    [] c.op = "findReleaseByNameOrKey" -> findReleaseByNameOrKeyStep(c.options, fr, outcome)
    [] c.op = "paginateFolders" -> paginateFoldersStep(c.options, fr, outcome)
    [] OTHER -> ListingStep(c.op, c.options, fr.attempt, outcome)

\* the public operation c up to its first this.request
OperationStart(c) ==
  CASE c.op = "getJobStats" ->
         LET f == [attempt |-> 1, i |-> 1, stats |-> ZeroStats, useFallback |-> FALSE]
         IN  DoRequest(FirstRequest("getJobs", StatsJobsOptions(c.options, f)), f, TRUE)
    [] c.op = "getQueueStats" -> getQueueStatsStart(c.options)
    [] c.op = "getProcessPerformance" ->
         DoRequest(FirstRequest("getJobs", PerformanceJobsOptions(c.options)),
                   [attempt |-> 1], TRUE)
    [] c.op = "getFaultedJobs" ->
         DoRequest(Request(epJobs, getFaultedJobsParams(c.options, TRUE),
                           getFolderId(c.options.folderId)),
                   [attempt |-> 1], TRUE)
    [] c.op = "findReleaseByNameOrKey" ->
         DoRequest(getReleasesRequest(Some(c.options.nameOrKey), c.options.folderId),
                   [attempt |-> 1, stage |-> "key", releasesByKey |-> None], TRUE)
    [] c.op = "paginateFolders" -> paginateFoldersStart(c.options)
    [] OTHER -> DoRequest(FirstRequest(c.op, c.options), [attempt |-> 1], TRUE)


-----------------------------------------------------------------------------
(* The remote side *)

\* the clock advances by a minute at a time
TickMs == 60 * 1000

\* the TokenResponses the identity endpoint hands out: a token and its lifetime
\* in seconds; the first expires a minute after the 5 minutes of the buffer
Grants ==
  {[access_token |-> tokenA, expires_in |-> 360],
   [access_token |-> tokenB, expires_in |-> 420]}

\* the answers of the identity endpoint: a TokenResponse, a non-2xx, a failed fetch
IdentityResponses ==
  {[kind |-> "ok", status |-> 200, body |-> <<>>, access_token |-> g.access_token,
    expires_in |-> g.expires_in] : g \in Grants} \cup
  {[kind |-> "http", status |-> 401, body |-> bodyInvalidClient,
    access_token |-> <<>>, expires_in |-> 0],
   [kind |-> "network", status |-> 0, body |-> sFetchFailed,
    access_token |-> <<>>, expires_in |-> 0]}

\* the records the remote side holds
JobsUniverse ==
  {[Id |-> 1, State |-> sSuccessful, ReleaseName |-> sP1],
   [Id |-> 2, State |-> sFaulted, ReleaseName |-> sP1],
   [Id |-> 3, State |-> sTerminated, ReleaseName |-> sP2],
   [Id |-> 4, State |-> sSuspended, ReleaseName |-> sP2]}
QueueItemsUniverse ==
  {[Id |-> 1, Status |-> sNew, QueueDefinitionId |-> 3],
   [Id |-> 2, Status |-> sFailed, QueueDefinitionId |-> 3],
   [Id |-> 3, Status |-> sAbandoned, QueueDefinitionId |-> 3]}
SessionsUniverse ==
  {[Id |-> 1, State |-> sAvailable], [Id |-> 2, State |-> sFaulted]}
OtherUniverse == {[Id |-> 1], [Id |-> 2]}
\* the jobs the remote side holds when the analytics are asked for: with the times
\* of their start and end, a time being a text, an empty text or null
TimedJobsUniverse ==
  {[Id |-> 21, State |-> sSuccessful, ReleaseName |-> sP1,
    StartTime |-> Some(t100000), EndTime |-> Some(t100200)],
   [Id |-> 22, State |-> sSuccessful, ReleaseName |-> sP1,
    StartTime |-> Some(t100000), EndTime |-> Some(t100001h)],
   [Id |-> 23, State |-> sSuccessful, ReleaseName |-> sP1,
    StartTime |-> Some(t100000), EndTime |-> Some(t100003)],
   [Id |-> 24, State |-> sSuccessful, ReleaseName |-> sP1,
    StartTime |-> Some(t100000), EndTime |-> None],
   [Id |-> 25, State |-> sFaulted, ReleaseName |-> sP1,
    StartTime |-> Some(t100000), EndTime |-> Some(t100200)],
   [Id |-> 26, State |-> sFaulted, ReleaseName |-> sP1,
    StartTime |-> Some(tLeapDay), EndTime |-> Some(tMarch)],
   [Id |-> 27, State |-> sFaulted, ReleaseName |-> sQuoted,
    StartTime |-> Some(<<>>), EndTime |-> Some(tGarbage)],
   [Id |-> 28, State |-> sFaulted, ReleaseName |-> sQuoted,
    StartTime |-> Some(t100000), EndTime |-> Some(t100001h)]}
\* the releases the remote side holds
ReleasesUniverse ==
  {[Key |-> sK1, ProcessKey |-> sP1, Name |-> sP2],
   [Key |-> sK2, ProcessKey |-> sP2, Name |-> sP1],
   [Key |-> sK3, ProcessKey |-> sOrders, Name |-> sQuoted]}

Universe(endpoint) ==
  CASE endpoint = epJobs ->
         IF call.op \in {"getProcessPerformance", "getFaultedJobs"}
         THEN TimedJobsUniverse ELSE JobsUniverse
    [] endpoint = epReleases -> ReleasesUniverse
    [] endpoint = epQueueItems -> QueueItemsUniverse
    [] endpoint = epSessions -> SessionsUniverse
    [] OTHER -> OtherUniverse

\* the eq predicates that are true of a record
TrueClauses(x) ==
  (IF "State" \in DOMAIN x THEN {sStateEq \o x.State \o sQuote} ELSE {}) \cup
  (IF "Status" \in DOMAIN x THEN {sStatusEq \o x.Status \o sQuote} ELSE {}) \cup
  (IF "ReleaseName" \in DOMAIN x
   THEN {sReleaseNameEq \o escapeODataString(x.ReleaseName) \o sQuote} ELSE {}) \cup
  (IF "ProcessKey" \in DOMAIN x
   THEN {sProcessKeyEq \o escapeODataString(x.ProcessKey) \o sQuote} ELSE {}) \cup
  (IF "Name" \in DOMAIN x
   THEN {sNameEq \o escapeODataString(x.Name) \o sQuote} ELSE {}) \cup
  (IF "QueueDefinitionId" \in DOMAIN x
   THEN {sQueueDefinitionIdEq \o ToStr(x.QueueDefinitionId)} ELSE {})

\* the remote side's reading of $filter: a conjunction of eq predicates
Satisfies(x, filter) ==
  filter \in {Join(cs, sAnd) : cs \in DistinctSeqs(TrueClauses(x), 2) \ {<<>>}}

\* the remote side's reading of $top
TopValues == {1, 2, 50, 100, 1000}
TopOf(params) ==
  IF "$top" \in DOMAIN params /\ \E n \in TopValues : ToStr(n) = params["$top"]
  THEN CHOOSE n \in TopValues : ToStr(n) = params["$top"]
  ELSE MaxPage

Min(a, b) == IF a < b THEN a ELSE b

\* the pages the remote side can answer a resource request with
Pages(w) ==
  DistinctSeqs({x \in Universe(w.endpoint) :
                  "$filter" \in DOMAIN w.params => Satisfies(x, w.params["$filter"])},
               Min(MaxPage, TopOf(w.params)))

\* @odata.count, when the response carries it, is at least the page's length
CountsFor(page) == {None} \cup {Some(n) : n \in Len(page)..MaxCount}

\* the position of a character in the order of the character codes
CharRank(c) ==
  LET codes == <<"0","1","2","3","4","5","6","7","8","9">> \o UpperCase \o LowerCase
  IN  IF \E i \in 1..Len(codes) : codes[i] = c
      THEN CHOOSE i \in 1..Len(codes) : codes[i] = c ELSE 0

\* a < b for two texts
RECURSIVE TextLess(_, _)
TextLess(a, b) ==
  IF b = <<>> THEN FALSE
  ELSE IF a = <<>> THEN TRUE
  ELSE IF Head(a) = Head(b) THEN TextLess(Tail(a), Tail(b))
  ELSE CharRank(Head(a)) < CharRank(Head(b))

\* a < b for two times as DateGetTime returns them
TimeLess(a, b) == a[1].s < b[1].s \/ (a[1].s = b[1].s /\ a[1].ms < b[1].ms)

\* whether the remote side puts x before y under $orderby
Precedes(x, y, orderby) ==
  CASE orderby = sDisplayNameAsc -> TextLess(x.DisplayName, y.DisplayName)
    [] orderby = sCreationTimeDesc ->
         TimeLess(DateGetTime(y.CreationTime), DateGetTime(x.CreationTime))
    [] OTHER -> FALSE

\* the remote side's ordering of a collection under $orderby
RECURSIVE InsertOrdered(_, _, _)
InsertOrdered(x, sorted, orderby) ==
  IF sorted = <<>> THEN <<x>>
  ELSE IF Precedes(x, Head(sorted), orderby) THEN <<x>> \o sorted
  ELSE <<Head(sorted)>> \o InsertOrdered(x, Tail(sorted), orderby)

RECURSIVE OrderedBy(_, _)
OrderedBy(items, orderby) ==
  IF items = <<>> THEN <<>>
  ELSE InsertOrdered(Head(items), OrderedBy(Tail(items), orderby), orderby)

\* the remote side's reading of a number in the query
QueryNumber(params, key, default) ==
  IF key \in DOMAIN params /\ NumberAt(params[key], 1, Len(params[key])) >= 0
  THEN NumberAt(params[key], 1, Len(params[key])) ELSE default

\* the collection a stable remote side holds behind an endpoint, in its own order
CollectionOf(endpoint) ==
  CASE endpoint = epFolders -> backing[1].folders
    [] endpoint = epJobs -> backing[1].jobs
    [] OTHER -> <<>>

\* the records of a collection that $filter selects
Selected(items, params) ==
  LET Test(x) == "$filter" \in DOMAIN params => Satisfies(x, params["$filter"])
  IN  SelectSeq(items, Test)

\* $skip and $top applied to the selected and ordered records
Window(items, skip, top) == SubSeq(items, skip + 1, Min(Len(items), skip + top))

\* the page a stable remote side answers a resource request with: $filter, then
\* $orderby (its own order when none is asked for), then $skip and $top
StablePage(w) ==
  Window(IF "$orderby" \in DOMAIN w.params
         THEN OrderedBy(Selected(CollectionOf(w.endpoint), w.params), w.params["$orderby"])
         ELSE Selected(CollectionOf(w.endpoint), w.params),
         QueryNumber(w.params, "$skip", 0), QueryNumber(w.params, "$top", 1000))

\* the answers of a stable remote side: the page, with the total when $count is
\* asked for; a remote side that does not support $count on the jobs rejects it
StableResponses(w) ==
  IF backing[1].rejects /\ w.endpoint = epJobs /\ "$count" \in DOMAIN w.params
  THEN {[kind |-> "http", status |-> 400, body |-> bodyInvalidQueryOptions,
         value |-> <<>>, count |-> None]}
  ELSE {[kind |-> "ok", status |-> 200, body |-> <<>>, value |-> StablePage(w),
         count |-> IF "$count" \in DOMAIN w.params
                   THEN Some(Len(Selected(CollectionOf(w.endpoint), w.params)))
                   ELSE None]}

\* the answers of the resource API: an ODataResponse, a non-2xx, a failed fetch
ResourceResponses(w) ==
  IF backing # None THEN StableResponses(w)
  ELSE
    UNION {{[kind |-> "ok", status |-> 200, body |-> <<>>, value |-> p, count |-> c] :
              c \in CountsFor(p)} : p \in Pages(w)} \cup
    {[kind |-> "http", status |-> 400, body |-> bodyInvalidQueryOptions,
      value |-> <<>>, count |-> None],
     [kind |-> "http", status |-> 400, body |-> bodyInvalidFilter,
      value |-> <<>>, count |-> None],
     [kind |-> "http", status |-> 500, body |-> bodyServerError,
      value |-> <<>>, count |-> None],
     [kind |-> "network", status |-> 0, body |-> sFetchFailed,
      value |-> <<>>, count |-> None]}


-----------------------------------------------------------------------------
(* The options the operations are called with *)

ExplicitFolders == {None, Some(12)}

getFoldersOptions ==
  {NoOptions, [NoOptions EXCEPT !.top = Some(2), !.skip = Some(2)]}
getRobotsOptions == {[NoOptions EXCEPT !.folderId = f] : f \in {None, Some(0), Some(12)}}
getMachinesOptions == {NoOptions}
getRobotLogsOptions == {[NoOptions EXCEPT !.folderId = f] : f \in ExplicitFolders}
getQueueDefinitionsOptions == {[NoOptions EXCEPT !.folderId = f] : f \in ExplicitFolders}
getSessionsOptions ==
  {[NoOptions EXCEPT !.folderId = f, !.state = s] :
     f \in ExplicitFolders, s \in {None, Some(sAvailable)}}
getAssetsOptions == {[NoOptions EXCEPT !.folderId = f] : f \in ExplicitFolders}
getProcessSchedulesOptions == {[NoOptions EXCEPT !.folderId = f] : f \in ExplicitFolders}
getAuditLogsOptions == {NoOptions, [NoOptions EXCEPT !.top = Some(1)]}
getQueueItemsOptions ==
  {[NoOptions EXCEPT !.folderId = f] : f \in ExplicitFolders} \cup
  {[NoOptions EXCEPT !.queueId = Some(3), !.status = Some(sNew), !.top = Some(1)]}
getJobsOptions ==
  {[NoOptions EXCEPT !.folderId = f] : f \in ExplicitFolders} \cup
  {[NoOptions EXCEPT !.state = Some(sFaulted), !.top = Some(2), !.skip = Some(1)],
   [NoOptions EXCEPT !.state = Some(sSuccessful), !.releaseName = Some(sP1)]}
getJobStatsOptions == {[NoOptions EXCEPT !.folderId = f] : f \in ExplicitFolders}
getQueueStatsOptions == {[queueId |-> 3, queueName |-> sOrders, folderId |-> None]}
getProcessPerformanceOptions ==
  {[processName |-> n, folderId |-> None, top |-> None] : n \in {sP1, sQuoted}}
getFaultedJobsOptions ==
  {[folderId |-> None, top |-> None, releaseName |-> n, startTime |-> None,
    endTime |-> None] : n \in {None, Some(sQuoted)}}
findReleaseByNameOrKeyOptions ==
  {[nameOrKey |-> n, folderId |-> None] : n \in {sP1, sQuoted, sK1, <<>>}}

-----------------------------------------------------------------------------
(* Actions *)

\* the configuration of the client whose operations are followed
DefaultConfig ==
  [baseUrl |-> urlOrgSlash, tenantName |-> sT1, clientId |-> idA, clientSecret |-> secretA,
   defaultFolderId |-> None, disableSslVerify |-> FALSE]

\* new UiPathClient(cfg) in a process that has constructed no other client: no
\* token, no request; cfg.defaultFolderId and buildOrchestratorUrl() are kept and
\* if (cfg.disableSslVerify) the variable of the environment is set
Constructed(cfg) ==
  /\ config = cfg
  /\ baseUrl = buildOrchestratorUrl(cfg)
  /\ env = IF cfg.disableSslVerify THEN Some(sZero) ELSE None
  /\ accessToken = None
  /\ tokenExpiresAt = None
  /\ defaultFolderId = cfg.defaultFolderId
  /\ now = 0
  /\ pc = "idle"
  /\ call = NoCall
  /\ frame = NoFrame
  /\ req = NoRequest
  /\ token = None
  /\ wire = NoWire
  /\ traffic = NoTraffic
  /\ hist = <<>>
  /\ last = None
  /\ used = FALSE
  /\ result = NoResult
  /\ peers = <<>>
  /\ inflight = <<>>
  /\ granted = <<>>

\* the client, with or without a default folder
\* the client, with or without a default folder, before a remote side that may
\* answer a request with any page of its records
Init ==
  /\ \E d \in {None, Some(5)} : Constructed([DefaultConfig EXCEPT !.defaultFolderId = d])
  /\ backing = None

\* The operation goes on with `step` while the cache holds (tok, exp): a
\* this.request runs ensureToken up to its fetch, or up to request's own fetch
\* when the cached token is returned; a return or a throw ends the operation.
Continue(step, tok, exp, traf, hi) ==
  /\ accessToken' = tok
  /\ tokenExpiresAt' = exp
  /\ frame' = step.frame
  /\ IF step.kind = "request"
     THEN LET h0 == IF step.fresh THEN <<>> ELSE hi
              t0 == [traf EXCEPT !.requests = @ + 1, !.inRequest = 0]
          IN  /\ req' = step.req
              /\ result' = NoResult
              /\ IF CachedTokenValid(tok, exp, now)
                 THEN /\ token' = Some(tok[1])
                      /\ wire' = ResourceWire(step.req, tok[1])
                      /\ pc' = "fetch"
                      /\ traffic' = [t0 EXCEPT !.resources = @ + 1]
                      /\ hist' = Append(h0, [wire |-> ResourceWire(step.req, tok[1]),
                                             response |-> None])
                 ELSE /\ token' = None
                      /\ wire' = IdentityWire
                      /\ pc' = "exchange"
                      /\ traffic' = [t0 EXCEPT !.exchanges = @ + 1, !.inRequest = @ + 1]
                      /\ hist' = h0
     ELSE /\ req' = NoRequest
          /\ token' = None
          /\ wire' = NoWire
          /\ pc' = "done"
          /\ traffic' = traf
          /\ hist' = hi
          /\ result' = [ok |-> step.kind = "return", value |-> step.value,
                        message |-> step.message]

\* a public operation is called
Call(op, options) ==
  /\ pc = "idle"
  /\ call' = [op |-> op, options |-> options]
  /\ last' = None
  /\ used' = TRUE
  /\ Continue(OperationStart([op |-> op, options |-> options]),
              accessToken, tokenExpiresAt, NoTraffic, <<>>)
  /\ UNCHANGED <<outside, defaultFolderId, now>>

GetFolders == \E o \in getFoldersOptions : Call("getFolders", o)
GetRobots == \E o \in getRobotsOptions : Call("getRobots", o)
GetMachines == \E o \in getMachinesOptions : Call("getMachines", o)
GetRobotLogs == \E o \in getRobotLogsOptions : Call("getRobotLogs", o)
GetQueueDefinitions == \E o \in getQueueDefinitionsOptions : Call("getQueueDefinitions", o)
GetSessions == \E o \in getSessionsOptions : Call("getSessions", o)
GetAssets == \E o \in getAssetsOptions : Call("getAssets", o)
GetProcessSchedules == \E o \in getProcessSchedulesOptions : Call("getProcessSchedules", o)
GetAuditLogs == \E o \in getAuditLogsOptions : Call("getAuditLogs", o)
GetQueueItems == \E o \in getQueueItemsOptions : Call("getQueueItems", o)
GetJobs == \E o \in getJobsOptions : Call("getJobs", o)
GetJobStats == \E o \in getJobStatsOptions : Call("getJobStats", o)
GetQueueStats == \E o \in getQueueStatsOptions : Call("getQueueStats", o)
GetProcessPerformance ==
  \E o \in getProcessPerformanceOptions : Call("getProcessPerformance", o)
GetFaultedJobs == \E o \in getFaultedJobsOptions : Call("getFaultedJobs", o)
FindReleaseByNameOrKey ==
  \E o \in findReleaseByNameOrKeyOptions : Call("findReleaseByNameOrKey", o)

\* an HTTP response as the operation saw it
Received(from, resp, data) ==
  Some([from |-> from, kind |-> resp.kind, status |-> resp.status,
        body |-> resp.body, data |-> data])

\* ensureToken after its fetch resolved with response.ok: the token and its
\* expiry are cached, the token is returned, and request sends its own fetch
ExchangeSucceeds ==
  /\ pc = "exchange"
  /\ \E resp \in {r \in IdentityResponses : r.kind = "ok"} :
       /\ accessToken' = Some(resp.access_token)
       /\ tokenExpiresAt' = Some(ExpiryOf(now, resp.expires_in))
       /\ token' = Some(resp.access_token)
       /\ wire' = ResourceWire(req, resp.access_token)
       /\ hist' = Append(hist, [wire |-> ResourceWire(req, resp.access_token),
                                response |-> None])
       /\ last' = Received("identity", resp,
                           Some([access_token |-> resp.access_token,
                                 expires_in |-> resp.expires_in]))
  /\ pc' = "fetch"
  /\ traffic' = [traffic EXCEPT !.resources = @ + 1]
  /\ UNCHANGED <<outside, defaultFolderId, now, call, frame, req, used, result>>

\* faulty variant of ExchangeFails: the cached token and expiry are cleared
ExchangeFailsClearing ==
  /\ pc = "exchange"
  /\ \E resp \in {r \in IdentityResponses : r.kind # "ok"} :
       LET message == IF resp.kind = "http" THEN AuthErrorMessage(resp.body)
                      ELSE resp.body
           denied == IF resp.kind = "http" THEN 1 ELSE 0
       IN  /\ last' = Received("identity", resp, None)
           /\ Continue(OperationStep(call, frame, Rejected(message)),
                       None, None,
                       [traffic EXCEPT !.denied = @ + denied], hist)
  /\ UNCHANGED <<outside, defaultFolderId, now, call, used>>

\* ensureToken after its fetch failed, or resolved without response.ok: it throws,
\* request throws, and the operation's catch clauses run
ExchangeFails ==
  /\ pc = "exchange"
  /\ \E resp \in {r \in IdentityResponses : r.kind # "ok"} :
       LET message == IF resp.kind = "http" THEN AuthErrorMessage(resp.body)
                      ELSE resp.body
           denied == IF resp.kind = "http" THEN 1 ELSE 0
       IN  /\ last' = Received("identity", resp, None)
           /\ Continue(OperationStep(call, frame, Rejected(message)),
                       accessToken, tokenExpiresAt,
                       [traffic EXCEPT !.denied = @ + denied], hist)
  /\ UNCHANGED <<outside, defaultFolderId, now, call, used>>

\* the history with the response to its last request filled in
Answered(hi, resp) ==
  [hi EXCEPT ![Len(hi)].response =
     Some([kind |-> resp.kind, status |-> resp.status, body |-> resp.body])]

\* request after its fetch resolved with response.ok: response.json() is returned
FetchSucceeds ==
  /\ pc = "fetch"
  /\ \E resp \in {r \in ResourceResponses(wire) : r.kind = "ok"} :
       LET data == [value |-> resp.value, count |-> resp.count]
       IN  /\ last' = Received("resource", resp, Some(data))
           /\ Continue(OperationStep(call, frame, Resolved(Some(data))),
                       accessToken, tokenExpiresAt, traffic, Answered(hist, resp))
  /\ UNCHANGED <<outside, defaultFolderId, now, call, used>>

\* request after its fetch failed, or resolved without response.ok: it throws
FetchFails ==
  /\ pc = "fetch"
  /\ \E resp \in {r \in ResourceResponses(wire) : r.kind # "ok"} :
       LET message == IF resp.kind = "http" THEN ApiErrorMessage(resp.status, resp.body)
                      ELSE resp.body
       IN  /\ last' = Received("resource", resp, None)
           /\ Continue(OperationStep(call, frame, Rejected(message)),
                       accessToken, tokenExpiresAt, traffic, Answered(hist, resp))
  /\ UNCHANGED <<outside, defaultFolderId, now, call, used>>

\* the caller has received what the operation returned or threw
Settle ==
  /\ pc = "done"
  /\ pc' = "idle"
  /\ call' = NoCall
  /\ frame' = NoFrame
  /\ traffic' = NoTraffic
  /\ hist' = <<>>
  /\ last' = None
  /\ result' = NoResult
  /\ UNCHANGED <<accessToken, tokenExpiresAt, outside, defaultFolderId, now, req, token, wire, used>>

\* time passes
Tick ==
  /\ now < MaxTicks * TickMs
  /\ now' = now + TickMs
  /\ UNCHANGED <<accessToken, tokenExpiresAt, outside, defaultFolderId, pc, call, frame,
                 req, token, wire, traffic, hist, last, used, result>>

\* the entity operations, called one after the other, while time passes
Next ==
  \/ GetFolders
  \/ GetRobots
  \/ GetMachines
  \/ GetRobotLogs
  \/ GetQueueDefinitions
  \/ GetSessions
  \/ GetAssets
  \/ GetProcessSchedules
  \/ GetAuditLogs
  \/ GetQueueItems
  \/ GetJobs
  \/ ExchangeSucceeds
  \/ ExchangeFails
  \/ FetchSucceeds
  \/ FetchFails
  \/ Settle
  \/ Tick

Spec == Init /\ [][Next]_vars

\* the job statistics, next to a plain listing and a listing with a fallback,
\* each running to its end within one tick of the clock
NextStats ==
  \/ GetFolders
  \/ GetJobs
  \/ GetJobStats
  \/ ExchangeSucceeds
  \/ ExchangeFails
  \/ FetchSucceeds
  \/ FetchFails
  \/ Settle

SpecStats == Init /\ [][NextStats]_vars


-----------------------------------------------------------------------------
(* Operations that await other public operations.  An awaited operation is one *)
(* step here: it returns one of the values it can return, or it throws.        *)

\* the largest number of queue definitions the remote side holds
MaxQueues == 6

\* an awaited call of a public operation
SubCall(op, args) == [method |-> "call", op |-> op, args |-> args]

\* how a composite goes on: it awaits an operation, returns or throws
DoAwait(sub, fr) ==
  [kind |-> "await", req |-> sub, frame |-> fr, fresh |-> FALSE,
   value |-> None, message |-> <<>>]

\* the queue definitions 1..n by ascending Id, and all of them by descending Id
QueueDefinition(id) == [Id |-> id, Name |-> sOrders \o ToStr(id)]
QueueLists ==
  {[k \in 1..n |-> QueueDefinition(k)] : n \in 0..MaxQueues} \cup
  {[k \in 1..MaxQueues |-> QueueDefinition(MaxQueues + 1 - k)]}

\* the statistics getQueueStats returns when its five queries report `counts`
RECURSIVE QueueStatsAfter(_, _, _)
QueueStatsAfter(stats, counts, i) ==
  IF i > Len(QueueStatuses) THEN WithQueueSuccessRate(stats)
  ELSE QueueStatsAfter(CountQueueStatus(stats, QueueStatuses[i], counts[i]), counts, i + 1)

\* the counts the five queries of a queue report in the scenarios of the dashboard
QueueCounts == {<<0, 0, 0, 0, 0>>, <<1, 0, 1, 1, 0>>, <<0, 1, 1, 0, 1>>}

\* the folders getFolders returns: none, another folder only, folder 5 by its
\* name, folder 5 unnamed
FolderLists ==
  {<<>>,
   <<[Id |-> 12, DisplayName |-> sP1]>>,
   <<[Id |-> 12, DisplayName |-> sP1], [Id |-> 5, DisplayName |-> sFinance]>>,
   <<[Id |-> 5, DisplayName |-> <<>>]>>}

\* the jobs getJobs returns: none, or the jobs 1..4 of the remote side
JobLists ==
  {<<>>, [k \in 1..4 |-> CHOOSE j \in JobsUniverse : j.Id = k]}

\* the values an awaited operation can return
SubValues(sub) ==
  CASE sub.op = "getQueueDefinitions" -> QueueLists
    [] sub.op = "getJobStats" ->
         {WithSuccessRate(FallbackTally(ZeroStats, jobs)) :
            jobs \in DistinctSeqs(JobsUniverse, 1)}
    [] sub.op = "getQueueStats" ->
         {QueueStatsAfter(ZeroQueueStats(sub.args.queueId, sub.args.queueName), c, 1) :
            c \in QueueCounts}
    [] sub.op = "getFolders" -> {[items |-> f, count |-> Some(Len(f))] : f \in FolderLists}
    [] sub.op = "getJobs" -> {[items |-> j, count |-> Some(Len(j))] : j \in JobLists}
    [] sub.op = "getReleases" -> DistinctSeqs(ReleasesUniverse, 1)
    [] sub.op = "getRobots" ->
         {[items |-> r, count |-> Some(Len(r))] : r \in DistinctSeqs(OtherUniverse, 1)}
    [] sub.op = "getQueueDefinitionByName" -> {None, Some(QueueDefinition(3))}
    [] sub.op = "findReleaseByNameOrKey" -> {None} \cup {Some(r) : r \in ReleasesUniverse}
    [] sub.op = "getQueueItems" ->
         {[items |-> q, count |-> Some(Len(q))] : q \in DistinctSeqs(QueueItemsUniverse, 1)}
    [] sub.op = "startJob" -> {<<[Id |-> 31, State |-> sPending, ReleaseName |-> sP1]>>}

\* the message an awaited operation throws
SubErrors == {ApiErrorMessage(500, bodyServerError)}

\* getDashboardSummary: queueItemsByStatus and totalQueueItems after one more queue
AddQueueStats(fr, stats) ==
  [fr EXCEPT !.New = @ + stats.newItems,
             !.InProgress = @ + stats.inProgressItems,
             !.Successful = @ + stats.successfulItems,
             !.Failed = @ + stats.failedItems,
             !.totalQueueItems = @ + stats.totalItems]

\* faulty variant of FirstFive: every queue definition
AllQueues(queues) == queues

\* queues.slice(0, 5)
FirstFive(queues) == SubSeq(queues, 1, IF Len(queues) < 5 THEN Len(queues) ELSE 5)

\* getDashboardSummary: the return statement
DashboardSummary(fr) ==
  LET completedItems == fr.Successful + fr.Failed
  IN  [totalQueues |-> Len(fr.queues),
       totalQueueItems |-> fr.totalQueueItems,
       queueItemsByStatus |-> [New |-> fr.New, InProgress |-> fr.InProgress,
                               Successful |-> fr.Successful, Failed |-> fr.Failed],
       totalJobs |-> fr.jobStats.totalJobs,
       jobsByState |-> [Pending |-> fr.jobStats.pendingJobs,
                        Running |-> fr.jobStats.runningJobs,
                        Successful |-> fr.jobStats.successfulJobs,
                        Faulted |-> fr.jobStats.faultedJobs,
                        Stopped |-> fr.jobStats.stoppedJobs],
       activeJobs |-> fr.jobStats.pendingJobs + fr.jobStats.runningJobs,
       successRateJobs |-> fr.jobStats.successRate,
       successRateQueues |-> IF completedItems > 0
                             THEN Some(Rate(fr.Successful, completedItems))
                             ELSE None]

\* getDashboardSummary: the getQueueStats call of the k-th iteration of its loop
DashboardQueueStats(options, fr, k) ==
  SubCall("getQueueStats",
          [queueId |-> FirstFive(fr.queues)[k].Id, queueName |-> FirstFive(fr.queues)[k].Name,
           folderId |-> getFolderId(options.folderId)])

\* getDashboardSummary: the loop over queues.slice(0, 5) from its k-th iteration on
DashboardLoop(options, fr, k) ==
  IF k <= Len(FirstFive(fr.queues))
  THEN DoAwait(DashboardQueueStats(options, fr, k), [fr EXCEPT !.stage = "queue", !.k = k])
  ELSE DoReturn(Some(DashboardSummary(fr)), [fr EXCEPT !.stage = "end"])

\* getDashboardSummary up to its first await
getDashboardSummaryStart(options) ==
  DoAwait(SubCall("getQueueDefinitions", [folderId |-> getFolderId(options.folderId)]),
          [attempt |-> 1, stage |-> "queues", k |-> 0, queues |-> <<>>, jobStats |-> ZeroStats,
           New |-> 0, InProgress |-> 0, Successful |-> 0, Failed |-> 0,
           totalQueueItems |-> 0])

\* getDashboardSummary after the operation it awaits settled
getDashboardSummaryStep(options, fr, outcome) ==
  IF ~outcome.ok THEN DoThrow(outcome.message, fr)
  ELSE CASE fr.stage = "queues" ->
              DoAwait(SubCall("getJobStats", [folderId |-> getFolderId(options.folderId)]),
                      [fr EXCEPT !.stage = "jobs", !.queues = outcome.data[1]])
         [] fr.stage = "jobs" ->
              DashboardLoop(options, [fr EXCEPT !.jobStats = outcome.data[1]], 1)
         [] fr.stage = "queue" ->
              DashboardLoop(options, AddQueueStats(fr, outcome.data[1]), fr.k + 1)

\* how a composite goes on at a Promise.all: the operations of `subs` are
\* called in order and the composite waits until each of them settled
DoAll(subs, fr) ==
  [kind |-> "all", req |-> NoRequest, subs |-> subs, frame |-> fr, fresh |-> FALSE,
   value |-> None, message |-> <<>>]

\* getFolderOverview: the four calls of its Promise.all, in the order of the array
OverviewCalls(folderId) ==
  <<SubCall("getJobs", [folderId |-> Some(folderId), top |-> Some(1000)]),
    SubCall("getQueueDefinitions", [folderId |-> Some(folderId)]),
    SubCall("getReleases", [processKey |-> None, folderId |-> Some(folderId)]),
    SubCall("getRobots", [folderId |-> Some(folderId), top |-> Some(100)])>>

\* getFolderOverview: what the .catch of the b-th call puts in place of a failure
OverviewFallback(b) ==
  CASE b = 1 -> [items |-> <<>>, count |-> Some(0)]
    [] b = 2 -> <<>>
    [] b = 3 -> <<>>
    [] b = 4 -> [items |-> <<>>, count |-> Some(0)]

\* folder?.DisplayName || `Folder ${folderId}`
FolderNameOf(folders, folderId) ==
  LET Test(f) == f.Id = folderId
      found == SelectSeq(folders, Test)
  IN  IF Len(found) > 0 /\ found[1].DisplayName # <<>> THEN found[1].DisplayName
      ELSE sFolderSpace \o ToStr(folderId)

\* getFolderOverview: jobCounts, a Terminated job counting as Stopped
JobCounts(jobs) ==
  [Pending |-> Len(InStates(jobs, {sPending})),
   Running |-> Len(InStates(jobs, {sRunning})),
   Successful |-> Len(InStates(jobs, {sSuccessful})),
   Faulted |-> Len(InStates(jobs, {sFaulted})),
   Stopped |-> Len(InStates(jobs, {sStopped, sTerminated}))]

\* getFolderOverview: the return statement, from the four values of Promise.all
FolderOverview(folderId, folderName, values) ==
  [folderId |-> folderId,
   folderName |-> folderName,
   jobCounts |-> JobCounts(values[1].items),
   totalJobs |-> Len(values[1].items),
   queueCount |-> Len(values[2]),
   releaseCount |-> Len(values[3]),
   robotCount |-> Len(values[4].items)]

\* getFolderOverview up to its first await
getFolderOverviewStart(options) ==
  DoAwait(SubCall("getFolders", [top |-> Some(1000)]),
          [attempt |-> 1, stage |-> "folders", folderName |-> <<>>,
           values |-> [b \in 1..4 |-> None]])

\* faulty variant of getFolderOverviewStep: a failure of getFolders is caught and
\* counts as an empty list of folders
getFolderOverviewStepCatching(options, fr, outcome) ==
  DoAll(OverviewCalls(options.folderId),
        [fr EXCEPT !.stage = "all",
                   !.folderName = FolderNameOf(IF outcome.ok THEN outcome.data[1].items
                                               ELSE <<>>, options.folderId)])

\* getFolderOverview after getFolders settled
getFolderOverviewStep(options, fr, outcome) ==
  IF ~outcome.ok THEN DoThrow(outcome.message, fr)
  ELSE DoAll(OverviewCalls(options.folderId),
             [fr EXCEPT !.stage = "all",
                        !.folderName = FolderNameOf(outcome.data[1].items, options.folderId)])

\* faulty variant of getFolderOverviewJoin: the result is assembled when the first
\* promise settles, the others counting as empty
getFolderOverviewRace(options, fr, b, v) ==
  DoReturn(Some(FolderOverview(options.folderId, fr.folderName,
                               [k \in 1..4 |-> IF k = b THEN v ELSE OverviewFallback(k)])),
           [fr EXCEPT !.values[b] = Some(v), !.stage = "end"])

\* getFolderOverview after the b-th promise of its Promise.all settled with value v
getFolderOverviewJoin(options, fr, b, v) ==
  LET values == [fr.values EXCEPT ![b] = Some(v)]
      joined == [fr EXCEPT !.values = values]
  IN  IF \E k \in 1..4 : values[k] = None THEN DoAll(<<>>, joined)
      ELSE DoReturn(Some(FolderOverview(options.folderId, fr.folderName,
                                        [k \in 1..4 |-> values[k][1]])),
                    [joined EXCEPT !.stage = "end"])

\* executeTool: the tools that look a name up before they call the client
LookupTools == {"uipath_get_queue_items", "uipath_get_queue_stats", "uipath_start_job"}

\* executeTool: the lookup of the queue or of the release by the name given
ToolLookup(name, parsed) ==
  CASE name = "uipath_start_job" ->
         SubCall("findReleaseByNameOrKey",
                 [nameOrKey |-> parsed.processName, folderId |-> parsed.folderId])
    [] name = "uipath_get_queue_stats" ->
         SubCall("getQueueDefinitionByName",
                 [name |-> parsed.queueName, folderId |-> parsed.folderId])
    [] name = "uipath_get_queue_items" ->
         SubCall("getQueueDefinitionByName",
                 [name |-> parsed.queueName[1], folderId |-> parsed.folderId])

\* executeTool: the error thrown when the lookup returned null
NotFoundMessage(name, parsed) ==
  CASE name = "uipath_start_job" -> sNoReleaseFound \o parsed.processName
    [] name = "uipath_get_queue_stats" -> sQueueNotFound \o parsed.queueName
    [] name = "uipath_get_queue_items" -> sQueueNotFound \o parsed.queueName[1]

\* uipath_get_queue_items: client.getQueueItems({queueId, status, folderId, top})
ToolQueueItems(parsed, queueId) ==
  SubCall("getQueueItems", [queueId |-> queueId, status |-> parsed.status,
                            folderId |-> parsed.folderId, top |-> Some(parsed.limit)])

\* executeTool: the call of the client with what the lookup found
ToolDownstream(name, parsed, found) ==
  CASE name = "uipath_start_job" ->
         SubCall("startJob", [releaseKey |-> found.Key,
                              inputArguments |-> parsed.inputArguments,
                              jobsCount |-> Some(parsed.jobsCount),
                              folderId |-> parsed.folderId])
    [] name = "uipath_get_queue_stats" ->
         SubCall("getQueueStats", [queueId |-> found.Id, queueName |-> found.Name,
                                   folderId |-> parsed.folderId])
    [] name = "uipath_get_queue_items" -> ToolQueueItems(parsed, Some(found.Id))

\* executeTool: what the tool returns from what the client returned
ToolResult(name, v) ==
  IF name = "uipath_get_queue_items" THEN [items |-> v.items, totalCount |-> v.count]
  ELSE v

\* executeTool up to its first await: uipath_get_queue_items looks the queue up
\* only if (parsed.queueName && !queueId)
executeToolStart(name, parsed) ==
  IF /\ name = "uipath_get_queue_items"
     /\ ~(Truthy(parsed.queueName) /\ (parsed.queueId = None \/ parsed.queueId[1] = 0))
  THEN DoAwait(ToolQueueItems(parsed, parsed.queueId), [attempt |-> 1, stage |-> "client"])
  ELSE DoAwait(ToolLookup(name, parsed), [attempt |-> 1, stage |-> "lookup"])

\* faulty variant of executeToolStep: the client is called whatever the lookup returned
executeToolUnchecked(name, parsed, fr, outcome) ==
  IF ~outcome.ok THEN DoThrow(outcome.message, fr)
  ELSE IF fr.stage = "lookup"
  THEN DoAwait(ToolDownstream(name, parsed,
                              IF outcome.data[1] = None
                              THEN [Id |-> 0, Name |-> <<>>, Key |-> <<>>]
                              ELSE outcome.data[1][1]),
               [fr EXCEPT !.stage = "client"])
  ELSE DoReturn(Some(ToolResult(name, outcome.data[1])), [fr EXCEPT !.stage = "end"])

\* executeTool after the operation of the client it awaits settled
executeToolStep(name, parsed, fr, outcome) ==
  IF ~outcome.ok THEN DoThrow(outcome.message, fr)
  ELSE IF fr.stage = "lookup"
  THEN IF outcome.data[1] = None THEN DoThrow(NotFoundMessage(name, parsed), fr)
       ELSE DoAwait(ToolDownstream(name, parsed, outcome.data[1][1]),
                    [fr EXCEPT !.stage = "client"])
  ELSE DoReturn(Some(ToolResult(name, outcome.data[1])), [fr EXCEPT !.stage = "end"])

\* a composite c up to its first await, and after the operation it awaits settled
CompositeStart(c) ==
  CASE c.op = "getDashboardSummary" -> getDashboardSummaryStart(c.options)
    [] c.op = "getFolderOverview" -> getFolderOverviewStart(c.options)
    [] c.op \in LookupTools -> executeToolStart(c.op, c.options)
CompositeStep(c, fr, outcome) ==
  CASE c.op = "getDashboardSummary" -> getDashboardSummaryStep(c.options, fr, outcome)
    [] c.op = "getFolderOverview" -> getFolderOverviewStep(c.options, fr, outcome)
    [] c.op \in LookupTools -> executeToolStep(c.op, c.options, fr, outcome)

\* the composite goes on with `step`; hi is the record of the operations it awaited
ContinueComposite(step, hi) ==
  /\ frame' = step.frame
  /\ req' = step.req
  /\ IF step.kind = "await"
     THEN /\ pc' = "await"
          /\ hist' = Append(hi, [sub |-> step.req, outcome |-> None])
          /\ result' = NoResult
     ELSE IF step.kind = "all"
     THEN /\ pc' = "all"
          /\ hist' = hi \o [k \in 1..Len(step.subs) |-> [sub |-> step.subs[k], outcome |-> None]]
          /\ result' = NoResult
     ELSE /\ pc' = "done"
          /\ hist' = hi
          /\ result' = [ok |-> step.kind = "return", value |-> step.value,
                        message |-> step.message]
  /\ UNCHANGED <<accessToken, tokenExpiresAt, outside, defaultFolderId, now, token, wire>>

\* a composite is called
CallComposite(op, options) ==
  /\ pc = "idle"
  /\ call' = [op |-> op, options |-> options]
  /\ last' = None
  /\ used' = TRUE
  /\ traffic' = NoTraffic
  /\ ContinueComposite(CompositeStart([op |-> op, options |-> options]), <<>>)

getDashboardSummaryOptions == {[folderId |-> f] : f \in ExplicitFolders}
GetDashboardSummary ==
  \E o \in getDashboardSummaryOptions : CallComposite("getDashboardSummary", o)

\* the record of the awaited operations with the outcome of the last one filled in
Settled(hi, outcome) == [hi EXCEPT ![Len(hi)].outcome = Some(outcome)]

\* the operation the composite awaits returns
SubReturns ==
  /\ pc = "await"
  /\ \E v \in SubValues(req) :
       /\ last' = Some([from |-> "operation", kind |-> "ok", value |-> v])
       /\ ContinueComposite(CompositeStep(call, frame, Resolved(Some(v))),
                            Settled(hist, Resolved(Some(v))))
  /\ UNCHANGED <<call, used, traffic>>

\* the operation the composite awaits throws
SubThrows ==
  /\ pc = "await"
  /\ \E m \in SubErrors :
       /\ last' = Some([from |-> "operation", kind |-> "error", value |-> m])
       /\ ContinueComposite(CompositeStep(call, frame, Rejected(m)),
                            Settled(hist, Rejected(m)))
  /\ UNCHANGED <<call, used, traffic>>

getFolderOverviewOptions == {[folderId |-> 5]}
GetFolderOverview ==
  \E o \in getFolderOverviewOptions : CallComposite("getFolderOverview", o)

\* the tools of the server that look a name up
uipath_get_queue_itemsArgs ==
  {[queueName |-> n, queueId |-> q, status |-> None, folderId |-> None, limit |-> 50] :
     n \in {None, Some(sOrders)}, q \in {None, Some(3)}}
uipath_get_queue_statsArgs == {[queueName |-> sOrders, folderId |-> None]}
uipath_start_jobArgs ==
  {[processName |-> sP1, folderId |-> None, inputArguments |-> None, jobsCount |-> 1]}
UipathGetQueueItems ==
  \E a \in uipath_get_queue_itemsArgs : CallComposite("uipath_get_queue_items", a)
UipathGetQueueStats ==
  \E a \in uipath_get_queue_statsArgs : CallComposite("uipath_get_queue_stats", a)
UipathStartJob ==
  \E a \in uipath_start_jobArgs : CallComposite("uipath_start_job", a)

\* the promises of the Promise.all that have not settled: hist[1] is the getFolders
\* call, hist[b + 1] the b-th call of the Promise.all
PendingPromises == {b \in 1..4 : frame.values[b] = None}

\* one of the operations of the Promise.all returns
BranchReturns ==
  /\ pc = "all"
  /\ \E b \in PendingPromises : \E v \in SubValues(hist[b + 1].sub) :
       /\ last' = Some([from |-> "operation", kind |-> "ok", value |-> v, promise |-> b])
       /\ ContinueComposite(getFolderOverviewJoin(call.options, frame, b, v),
                            [hist EXCEPT ![b + 1].outcome = Some(Resolved(Some(v)))])
  /\ UNCHANGED <<call, used, traffic>>

\* one of the operations of the Promise.all throws: its .catch yields the empty value
BranchThrows ==
  /\ pc = "all"
  /\ \E b \in PendingPromises : \E m \in SubErrors :
       /\ last' = Some([from |-> "operation", kind |-> "error", value |-> m, promise |-> b])
       /\ ContinueComposite(getFolderOverviewJoin(call.options, frame, b, OverviewFallback(b)),
                            [hist EXCEPT ![b + 1].outcome = Some(Rejected(m))])
  /\ UNCHANGED <<call, used, traffic>>

\* the composites, called one after the other
NextComposite ==
  \/ GetDashboardSummary
  \/ GetFolderOverview
  \/ UipathGetQueueItems
  \/ UipathGetQueueStats
  \/ UipathStartJob
  \/ SubReturns
  \/ SubThrows
  \/ BranchReturns
  \/ BranchThrows
  \/ Settle

SpecComposite == Init /\ [][NextComposite]_vars

\* the operations that report a success rate
NextRates ==
  \/ GetJobStats
  \/ GetQueueStats
  \/ GetProcessPerformance
  \/ GetDashboardSummary
  \/ ExchangeSucceeds
  \/ ExchangeFails
  \/ FetchSucceeds
  \/ FetchFails
  \/ SubReturns
  \/ SubThrows
  \/ Settle

SpecRates == Init /\ [][NextRates]_vars

\* the statistics of a queue, the analytics and the dashboard, each running to its
\* end within one tick of the clock
NextAnalytics ==
  \/ GetQueueStats
  \/ GetProcessPerformance
  \/ GetFaultedJobs
  \/ FindReleaseByNameOrKey
  \/ GetDashboardSummary
  \/ ExchangeSucceeds
  \/ ExchangeFails
  \/ FetchSucceeds
  \/ FetchFails
  \/ SubReturns
  \/ SubThrows
  \/ Settle

SpecAnalytics == Init /\ [][NextAnalytics]_vars
-----------------------------------------------------------------------------
(* Clients of several configurations *)

\* the pairs of clientId and clientSecret a configuration can carry
Credentials == {[clientId |-> idA, clientSecret |-> secretA],
                [clientId |-> idB, clientSecret |-> secretB]}

\* the configurations new UiPathClient is given
Configs ==
  {[baseUrl |-> u, tenantName |-> sT1, clientId |-> c.clientId,
    clientSecret |-> c.clientSecret, defaultFolderId |-> None, disableSslVerify |-> v] :
     u \in {urlOrgSlash, urlOrgTenant, urlOrchestrator}, c \in Credentials, v \in BOOLEAN}

InitConfigured ==
  /\ \E cfg \in Configs : Constructed(cfg)
  /\ backing = None

\* a client of any of the configurations, two of its listings and the clock
NextConfigured ==
  \/ GetFolders
  \/ GetJobs
  \/ ExchangeSucceeds
  \/ ExchangeFails
  \/ FetchSucceeds
  \/ FetchFails
  \/ Settle
  \/ Tick

SpecConfigured == InitConfigured /\ [][NextConfigured]_vars

-----------------------------------------------------------------------------
(* Callers that share the client: this.request calls in progress at once, as   *)
(* the four calls of getFolderOverview's Promise.all are.  A step runs from    *)
(* one await to the next.                                                      *)

\* the largest number of this.request calls in progress at once
MaxCallers == 3

\* what a public operation of the one caller followed above works on
single == <<defaultFolderId, pc, call, frame, req, token, wire, traffic, hist, last,
            used, result, config, baseUrl, env, peers, backing>>

\* a this.request call: where it is suspended, how many exchanges its
\* ensureToken sent, the TokenResponse being read, the token ensureToken
\* returned and the headers of its fetch
Flight(at, exchanges, data, tok, headers) ==
  [pc |-> at, exchanges |-> exchanges, data |-> data, token |-> tok, headers |-> headers]

\* this.request is called: ensureToken returns the cached token, or sends an exchange
RequestCalled ==
  /\ Len(inflight) < MaxCallers
  /\ inflight' =
       Append(inflight,
              IF CachedTokenValid(accessToken, tokenExpiresAt, now)
              THEN Flight("returned", 0, None, Some(accessToken[1]), None)
              ELSE Flight("exchange", 1, None, None, None))
  /\ UNCHANGED <<single, accessToken, tokenExpiresAt, now, granted>>

\* the fetch of an exchange resolved with response.ok: response.json() is awaited
ExchangeAnswered ==
  /\ \E c \in DOMAIN inflight : \E g \in Grants :
       /\ inflight[c].pc = "exchange"
       /\ inflight' = [inflight EXCEPT ![c].pc = "json", ![c].data = Some(g)]
  /\ UNCHANGED <<single, accessToken, tokenExpiresAt, now, granted>>

\* the fetch of an exchange failed or resolved without response.ok: ensureToken
\* throws, and so does this.request
ExchangeRejected ==
  /\ \E c \in DOMAIN inflight :
       /\ inflight[c].pc = "exchange"
       /\ inflight' = [inflight EXCEPT ![c].pc = "failed"]
  /\ UNCHANGED <<single, accessToken, tokenExpiresAt, now, granted>>

\* faulty variant of ExchangeCompletes: a token already cached is kept and returned
ExchangeCompletesKeepingCache ==
  /\ \E c \in DOMAIN inflight :
       /\ inflight[c].pc = "json"
       /\ accessToken' = IF accessToken # None THEN accessToken
                         ELSE Some(inflight[c].data[1].access_token)
       /\ tokenExpiresAt' = IF accessToken # None THEN tokenExpiresAt
                            ELSE Some(ExpiryOf(now, inflight[c].data[1].expires_in))
       /\ granted' = Append(granted,
                            [access_token |-> inflight[c].data[1].access_token,
                             expiresAt |-> ExpiryOf(now, inflight[c].data[1].expires_in)])
       /\ inflight' = [inflight EXCEPT ![c].pc = "returned", ![c].token = accessToken']
  /\ UNCHANGED <<single, now>>

\* response.json() of an exchange resolved: the exchange is complete, the token
\* and its expiry are cached and ensureToken returns this.accessToken
ExchangeCompletes ==
  /\ \E c \in DOMAIN inflight :
       /\ inflight[c].pc = "json"
       /\ accessToken' = Some(inflight[c].data[1].access_token)
       /\ tokenExpiresAt' = Some(ExpiryOf(now, inflight[c].data[1].expires_in))
       /\ granted' = Append(granted,
                            [access_token |-> inflight[c].data[1].access_token,
                             expiresAt |-> ExpiryOf(now, inflight[c].data[1].expires_in)])
       /\ inflight' = [inflight EXCEPT ![c].pc = "returned", ![c].token = accessToken']
  /\ UNCHANGED <<single, now>>

\* this.request goes on with the token ensureToken returned: its fetch is sent
ResourceSent ==
  /\ \E c \in DOMAIN inflight :
       /\ inflight[c].pc = "returned"
       /\ inflight' = [inflight EXCEPT ![c].pc = "fetch",
                                       ![c].headers = Some(getHeaders(inflight[c].token[1],
                                                                      defaultFolderId))]
  /\ UNCHANGED <<single, accessToken, tokenExpiresAt, now, granted>>

\* the fetch of this.request settled
ResourceAnswered ==
  /\ \E c \in DOMAIN inflight :
       /\ inflight[c].pc = "fetch"
       /\ inflight' = [inflight EXCEPT ![c].pc = "done"]
  /\ UNCHANGED <<single, accessToken, tokenExpiresAt, now, granted>>

\* this.request calls in progress at once on one client, while time passes
NextConcurrent ==
  \/ RequestCalled
  \/ ExchangeAnswered
  \/ ExchangeRejected
  \/ ExchangeCompletes
  \/ ResourceSent
  \/ ResourceAnswered
  \/ Tick

\* the client of the default configuration, no request made yet
InitConcurrent == Constructed(DefaultConfig) /\ backing = None

SpecConcurrent == InitConcurrent /\ [][NextConcurrent]_vars

-----------------------------------------------------------------------------
(* A remote side whose collections do not change *)

\* the folders: their names are not in the order of their ids
FolderNames == <<sP2, sFinance, sOrders, sP1, sArchive>>
StableFolder(id) == [Id |-> id, DisplayName |-> FolderNames[id]]
StableFolders == {[k \in 1..n |-> StableFolder(k)] : n \in {0, 1, 3, 5}}

\* the jobs of the release P1: job k was created k seconds after 09:00:00, every
\* third one faulted; a collection holds them oldest first or newest first
TwoDigits(n) == <<Digit(n \div 10), Digit(n % 10)>>
StableJob(id) ==
  [Id |-> id, State |-> IF id % 3 = 0 THEN sFaulted ELSE sSuccessful, ReleaseName |-> sP1,
   CreationTime |-> tCreatedPrefix \o TwoDigits(id) \o tCreatedSuffix,
   StartTime |-> Some(t100000), EndTime |-> Some(t100003)]
StableJobs ==
  {[k \in 1..n |-> StableJob(k)] : n \in {3, 12}} \cup
  {[k \in 1..12 |-> StableJob(13 - k)]}

\* the remote sides: the folders, the jobs, and whether $count on the jobs is rejected
StableBackings ==
  {[folders |-> f, jobs |-> j, rejects |-> r] :
     f \in StableFolders, j \in StableJobs, r \in BOOLEAN}

\* new UiPathClient(DefaultConfig) before a remote side whose collections are fixed
InitStable ==
  /\ Constructed(DefaultConfig)
  /\ \E b \in StableBackings : backing = Some(b)

\* the page sizes the caller asks for
PageSizes == {0, 1, 2}
PaginateFolders == \E k \in PageSizes : Call("paginateFolders", [k |-> k])

\* two pages of the folders and the performance of a process, before a remote
\* side whose collections are fixed
NextStable ==
  \/ PaginateFolders
  \/ GetProcessPerformance
  \/ ExchangeSucceeds
  \/ ExchangeFails
  \/ FetchSucceeds
  \/ FetchFails
  \/ Settle

SpecStable == InitStable /\ [][NextStable]_vars

-----------------------------------------------------------------------------
(* The clients of one process and the verification of their connections *)

\* the largest number of clients constructed in the process
MaxClients == 3

\* what the construction and the fetches of the other clients leave as it is
followed == <<accessToken, tokenExpiresAt, defaultFolderId, now, pc, call, frame, req,
              token, wire, traffic, hist, last, used, result, config, baseUrl,
              inflight, granted, backing>>

\* whether a connection opened under the environment e verifies the certificate
\* of the remote side: the runtime skips the verification when
\* NODE_TLS_REJECT_UNAUTHORIZED is "0"
Verifies(e) == e # Some(sZero)

\* new UiPathClient(cfg) for one more client of the process:
\* if (this.config.disableSslVerify) process.env.NODE_TLS_REJECT_UNAUTHORIZED = "0"
ClientConstructed ==
  /\ Len(peers) < MaxClients
  /\ \E v \in BOOLEAN :
       /\ peers' = Append(peers, [disableSslVerify |-> v, verified |-> {}])
       /\ env' = IF v THEN Some(sZero) ELSE env
  /\ UNCHANGED followed

\* a client of the process sends a request: fetch opens its connection under the
\* environment as it is then
PeerFetches ==
  /\ \E i \in DOMAIN peers :
       peers' = [peers EXCEPT ![i].verified = @ \cup {Verifies(env)}]
  /\ UNCHANGED <<followed, env>>

\* clients are constructed in one process and send requests
NextTls ==
  \/ ClientConstructed
  \/ PeerFetches

SpecTls == Init /\ [][NextTls]_vars


-----------------------------------------------------------------------------
(* Properties *)

ScopeHeader == "X-UIPATH-OrganizationUnitId"

\* a this.request call begins in this step, and with it ensureToken
RequestBegins == traffic'.requests = traffic.requests + 1

\* the cache holds a token whose expiry is more than 5 minutes after now
HoldsFreshToken ==
  /\ Truthy(accessToken)
  /\ tokenExpiresAt # None
  /\ tokenExpiresAt[1] > now + 5 * 60 * 1000

\* C1: Whenever ensureToken runs while the cache holds a token whose expiry is
\* more than 5 minutes after the current time, it sends nothing to the identity
\* endpoint, returns exactly the cached token (request goes straight to its own
\* fetch with it), and leaves the cached token and expiry unchanged.
TokenReuse ==
  [][(RequestBegins /\ HoldsFreshToken) =>
       /\ traffic'.exchanges = traffic.exchanges
       /\ traffic'.inRequest = 0
       /\ pc' = "fetch"
       /\ wire'.kind = "resource"
       /\ token' = accessToken
       /\ accessToken' = accessToken
       /\ tokenExpiresAt' = tokenExpiresAt]_vars

\* C1 witness: a request, sent a tick or more after the token was obtained, went
\* out with the cached token and without an exchange
TokenReused ==
  /\ pc = "fetch"
  /\ traffic.inRequest = 0
  /\ now >= TickMs
  /\ tokenExpiresAt[1] > now + TokenBuffer

\* C2: When ensureToken runs with no token cached, or with a cached expiry at or
\* before now + 5 minutes, it sends exactly one exchange request; when that
\* request succeeds, the granted token is cached with expiresAt = the time of
\* completion + expires_in seconds, and is the token returned.
TokenRefresh ==
  [][/\ (RequestBegins /\ ~HoldsFreshToken) =>
          /\ pc' = "exchange"
          /\ wire' = IdentityWire
          /\ traffic'.exchanges = traffic.exchanges + 1
          /\ traffic'.inRequest = 1
          /\ accessToken' = accessToken
          /\ tokenExpiresAt' = tokenExpiresAt
     /\ (pc = "exchange" /\ pc' = "fetch") =>
          /\ last'[1].from = "identity"
          /\ last'[1].kind = "ok"
          /\ accessToken' = Some(last'[1].data[1].access_token)
          /\ tokenExpiresAt' = Some(now' + last'[1].data[1].expires_in * 1000)
          /\ token' = accessToken'
          /\ traffic'.exchanges = traffic.exchanges
          /\ traffic'.inRequest = 1]_vars

\* C2 witness: an exchange is in flight although a token is cached, its expiry
\* being exactly now + 5 minutes
RefreshAtBoundary ==
  /\ pc = "exchange"
  /\ Truthy(accessToken)
  /\ tokenExpiresAt = Some(now + TokenBuffer)

\* an exchange is answered with a non-2xx response in this step
ExchangeDenied ==
  /\ pc = "exchange"
  /\ traffic'.denied = traffic.denied + 1

\* C3 as stated: once the identity endpoint answered an exchange of the
\* operation with a non-success response, the operation has failed with the
\* body text in its error, after one exchange and no resource request.
AuthFailureFailsOperation ==
  traffic.denied >= 1 =>
    /\ pc = "done"
    /\ ~result.ok
    /\ result.message = AuthErrorMessage(last[1].body)
    /\ traffic.exchanges = 1
    /\ traffic.resources = 0

\* C3 as amended: a non-success response to the exchange makes ensureToken throw
\* an error carrying the body text after that one exchange, and the this.request
\* that called it sends no resource request; the operation fails with that error
\* unless a catch clause of its own handles it: getJobStats, counting per state,
\* goes on to its fallback fetch, which begins with a new exchange.
AuthFailureSurfaces ==
  [][ExchangeDenied =>
       /\ traffic.inRequest = 1
       /\ traffic'.resources = traffic.resources
       /\ last'[1].from = "identity"
       /\ IF call.op = "getJobStats" /\ ~frame.useFallback
          THEN /\ pc' = "exchange"
               /\ frame'.useFallback
               /\ traffic'.inRequest = 1
          ELSE /\ pc' = "done"
               /\ ~result'.ok
               /\ result'.message = sFailedToObtain \o last'[1].body
               /\ Includes(result'.message, bodyInvalidClient)]_vars

\* C3 witness: getFolders failed with the identity endpoint's body text after
\* one exchange and no resource request
AuthFailureSeen ==
  /\ pc = "done"
  /\ call.op = "getFolders"
  /\ ~result.ok
  /\ traffic.denied = 1
  /\ traffic.exchanges = 1
  /\ traffic.resources = 0
  /\ Includes(result.message, bodyInvalidClient)

\* C4: Every resource request in flight was sent by a this.request whose
\* ensureToken had returned, and its Authorization header is "Bearer " followed
\* by the token ensureToken returned (the token just granted, when the call
\* exchanged); before the first operation is called the client holds no token
\* and has sent nothing, and nothing is in flight between operations.
BearerIsReturnedToken ==
  /\ wire.kind = "resource" =>
       /\ pc = "fetch"
       /\ token # None
       /\ "Authorization" \in DOMAIN wire.headers
       /\ wire.headers["Authorization"] = sBearer \o token[1]
       /\ traffic.inRequest = 1 =>
            /\ last[1].from = "identity"
            /\ last[1].kind = "ok"
            /\ token[1] = last[1].data[1].access_token
  /\ pc = "fetch" => wire.kind = "resource"
  /\ pc \in {"idle", "done"} => wire = NoWire
  /\ ~used => /\ accessToken = None
              /\ tokenExpiresAt = None
              /\ wire = NoWire
              /\ traffic = NoTraffic

\* C4 witness: a resource request is in flight with the token of the exchange
\* that its own this.request call made
BearerAfterExchange ==
  /\ pc = "fetch"
  /\ traffic.inRequest = 1
  /\ wire.headers["Authorization"] = sBearer \o tokenB

\* the effective scope of the operation in progress
EffectiveScope == OrElse(call.options.folderId, defaultFolderId)

\* the request in flight carries the scoping header exactly when the effective
\* scope is present, and then with the string form of the id
ScopedAsResolved ==
  IF EffectiveScope # None
  THEN /\ ScopeHeader \in DOMAIN wire.headers
       /\ wire.headers[ScopeHeader] = ToStr(EffectiveScope[1])
  ELSE ScopeHeader \notin DOMAIN wire.headers

\* C5 as stated: for every operation, every resource request carries the scoping
\* header with the string form of the explicit folder id, else of the configured
\* default, and none carries it when both are absent.
ScopeHeaderOnEveryRequest == wire.kind = "resource" => ScopedAsResolved

\* C5 as amended: the same for the operations that hand the effective folder to
\* this.request; getRobots sends no scoping header and puts a non-zero effective
\* folder id into its route instead; getFolders, getMachines and getAuditLogs
\* take no folder and send no scoping header, whatever the configured default.
ScopeHeaderWhereScoped ==
  wire.kind = "resource" =>
    CASE call.op \in {"getFolders", "getMachines", "getAuditLogs"} ->
           ScopeHeader \notin DOMAIN wire.headers
      [] call.op = "getRobots" ->
           /\ ScopeHeader \notin DOMAIN wire.headers
           /\ wire.endpoint =
                IF EffectiveScope # None /\ EffectiveScope[1] # 0
                THEN epRobotsFromFolder \o ToStr(EffectiveScope[1]) \o sCloseParen
                ELSE epRobots
      [] OTHER -> ScopedAsResolved

\* C5 witness: getJobs called without a folder sends the configured default
ScopeFromDefault ==
  /\ pc = "fetch"
  /\ call.op = "getJobs"
  /\ call.options.folderId = None
  /\ ScopeHeader \in DOMAIN wire.headers
  /\ wire.headers[ScopeHeader] = <<"5">>

\* the error message that a response makes this.request throw
MessageOf(response) ==
  IF response.kind = "http"
  THEN sApiRequestFailed \o ToStr(response.status) \o sCloseColon \o response.body
  ELSE response.body

\* C6 as stated: the first request of getQueueItems and of getJobs carries
\* $count=true and $orderby; the operation retries, once, if and only if that
\* request failed with an error whose message contains "Invalid OData"; the
\* retry carries neither $count nor $orderby, and a failure of the retry is
\* thrown to the caller without a third request.
FallbackIffInvalidOData ==
  (call.op \in {"getQueueItems", "getJobs"} /\ hist # <<>>) =>
    /\ "$count" \in DOMAIN hist[1].wire.params
    /\ hist[1].wire.params["$count"] = sTrue
    /\ "$orderby" \in DOMAIN hist[1].wire.params
    /\ hist[1].response # None =>
         (traffic.requests = 2 <=>
            /\ hist[1].response[1].kind # "ok"
            /\ Includes(MessageOf(hist[1].response[1]), sInvalidOData))
    /\ Len(hist) = 2 =>
         /\ "$count" \notin DOMAIN hist[2].wire.params
         /\ "$orderby" \notin DOMAIN hist[2].wire.params
         /\ (hist[2].response # None /\ hist[2].response[1].kind # "ok") =>
              /\ pc = "done"
              /\ ~result.ok
              /\ result.message = MessageOf(hist[2].response[1])
    /\ traffic.requests <= 2
    /\ traffic.resources <= 2

\* the listings that retry without $count when the query is rejected
FallbackOps ==
  {"getQueueItems", "getJobs", "getSessions", "getAssets", "getProcessSchedules",
   "getAuditLogs"}

\* C7: When the first resource request of an entity operation is answered with
\* a non-2xx status and a body that is not of the invalid-query class, the
\* operation fails after exactly that one resource request, with an error whose
\* message includes the status code and the body text.
ErrorCarriesStatusAndBody ==
  (/\ pc = "done"
   /\ hist # <<>>
   /\ hist[1].response[1].kind = "http"
   /\ ~Includes(hist[1].response[1].body, sInvalidOData)) =>
    /\ ~result.ok
    /\ result.message = MessageOf(hist[1].response[1])
    /\ Includes(result.message, ToStr(hist[1].response[1].status))
    /\ Includes(result.message, hist[1].response[1].body)
    /\ traffic.resources = 1
    /\ Len(hist) = 1

\* C7 witness: getSessions, which has a fallback, failed on a 500
ServerErrorSeen ==
  /\ pc = "done"
  /\ call.op = "getSessions"
  /\ hist # <<>>
  /\ hist[1].response[1].kind = "http"
  /\ hist[1].response[1].status = 500
  /\ ~result.ok

\* the operation in progress returned a page after its fallback retry
ReturnedAfterFallback ==
  /\ pc = "done"
  /\ result.ok
  /\ call.op \in FallbackOps
  /\ Len(hist) = 2

\* the operation in progress returned a page from its first request
ReturnedWithoutFallback ==
  /\ pc = "done"
  /\ result.ok
  /\ call.op \in FallbackOps
  /\ Len(hist) = 1

\* the page-length operations count the returned page, and without a fallback
\* the total is the server's count, or unknown
TotalOtherwise ==
  /\ (ReturnedAfterFallback /\ call.op \notin {"getQueueItems", "getJobs"}) =>
       result.value[1].count = Some(Len(result.value[1].items))
  /\ ReturnedWithoutFallback =>
       result.value[1].count = last[1].data[1].count

Asked(option, items, field) ==
  option # None => \A k \in 1..Len(items) : items[k][field] = option[1]

\* C9: The fallback retry asks for the same $top, $skip and $filter as the
\* rejected request; when the retry is answered with a page, the operation
\* returns, without throwing, the items of that page: at most $top of them,
\* each satisfying the filters the caller asked for.
FallbackKeepsPageAndFilter ==
  (call.op \in FallbackOps /\ Len(hist) = 2) =>
    /\ \A k \in {"$top", "$skip", "$filter"} :
         /\ k \in DOMAIN hist[1].wire.params <=> k \in DOMAIN hist[2].wire.params
         /\ k \in DOMAIN hist[1].wire.params =>
              hist[1].wire.params[k] = hist[2].wire.params[k]
    /\ hist[2].wire.params["$top"] = ToStr(NumberOr(call.options.top, 100))
    /\ (pc = "done" /\ hist[2].response[1].kind = "ok") =>
         /\ result.ok
         /\ result.value[1].items = last[1].data[1].value
         /\ Len(result.value[1].items) <= NumberOr(call.options.top, 100)
         /\ call.op \in {"getJobs", "getSessions"} =>
              Asked(call.options.state, result.value[1].items, "State")
         /\ call.op = "getJobs" =>
              Asked(call.options.releaseName, result.value[1].items, "ReleaseName")
         /\ call.op = "getQueueItems" =>
              /\ Asked(call.options.status, result.value[1].items, "Status")
              /\ Asked(call.options.queueId, result.value[1].items, "QueueDefinitionId")

\* C9 witness: getJobs, asked for the Faulted jobs, returned one after its retry
FilteredFallbackSeen ==
  /\ ReturnedAfterFallback
  /\ call.op = "getJobs"
  /\ call.options.state = Some(sFaulted)
  /\ Len(result.value[1].items) = 1

\* the number of the jobs in one of the states
CountIn(jobs, states) == Cardinality({k \in 1..Len(jobs) : jobs[k].State \in states})

\* the statistics of a list of jobs, counted state by state
ClientSideTally(jobs) ==
  LET successful == CountIn(jobs, {sSuccessful})
      faulted == CountIn(jobs, {sFaulted})
  IN  [totalJobs |-> Len(jobs),
       pendingJobs |-> CountIn(jobs, {sPending}),
       runningJobs |-> CountIn(jobs, {sRunning}),
       successfulJobs |-> successful,
       faultedJobs |-> faulted,
       stoppedJobs |-> CountIn(jobs, {sStopped, sTerminated}),
       successRate |-> IF successful + faulted > 0
                       THEN Some([num |-> successful * 100, den |-> successful + faulted])
                       ELSE None]

\* C10: getJobStats stays on its per-state counts only while every count query
\* returns a count; once one returns unknown or throws it discards the counters
\* gathered so far, fetches the jobs once with $top=1000 and no filter, and
\* returns exactly the client-side tally of that one page.
JobStatsFallbackIsTally ==
  call.op = "getJobStats" =>
    /\ (~frame.useFallback /\ last # None) =>
         IF last[1].kind = "ok"
         THEN last[1].from = "resource" => last[1].data[1].count # None
         ELSE /\ last[1].from = "resource"
              /\ frame.attempt = 2
              /\ pc # "done"
    /\ (frame.useFallback /\ pc # "done") => frame.stats = ZeroStats
    /\ (frame.useFallback /\ hist # <<>>) =>
         /\ hist[1].wire.endpoint = epJobs
         /\ hist[1].wire.params["$top"] = ToStr(1000)
         /\ "$filter" \notin DOMAIN hist[1].wire.params
    /\ (pc = "done" /\ result.ok /\ frame.useFallback) =>
         /\ result.value[1] = ClientSideTally(last[1].data[1].value)
         /\ Len(last[1].data[1].value) <= 1000
    /\ (pc = "done" /\ result.ok /\ ~frame.useFallback) =>
         result.value[1].totalJobs =
           result.value[1].pendingJobs + result.value[1].runningJobs +
           result.value[1].successfulJobs + result.value[1].faultedJobs +
           result.value[1].stoppedJobs

\* C10 witness: the fallback was taken after counts had been gathered, and the
\* statistics returned are those of a page of two jobs
JobStatsFallbackSeen ==
  /\ pc = "done"
  /\ call.op = "getJobStats"
  /\ result.ok
  /\ frame.useFallback
  /\ frame.i >= 2
  /\ result.value[1].totalJobs = 2

\* the field of the queue statistics that holds the count of a status
QueueField(stats, status) ==
  CASE status = sNew -> stats.newItems
    [] status = sInProgress -> stats.inProgressItems
    [] status = sSuccessful -> stats.successfulItems
    [] status = sFailed -> stats.failedItems
    [] status = sAbandoned -> stats.abandonedItems

\* a rate, kept as a fraction, is the percentage pct
RateIs(rate, pct) == rate # None /\ rate[1].num = pct * rate[1].den

\* C11: getQueueStats keeps totalItems equal to the sum of the five per-status
\* fields; the field of the status just queried is the count that query
\* reported (0 when it reported none) and the fields of the statuses not yet
\* queried are 0; the result carries these statistics with successRate =
\* successful / (successful + failed) * 100 when successful + failed > 0.
QueueStatsSumCounts ==
  call.op = "getQueueStats" =>
    /\ frame.stats.totalItems =
         frame.stats.newItems + frame.stats.inProgressItems +
         frame.stats.successfulItems + frame.stats.failedItems +
         frame.stats.abandonedItems
    /\ \A j \in 1..5 :
         (pc # "done" /\ j >= frame.i) => QueueField(frame.stats, QueueStatuses[j]) = 0
    /\ (last # None /\ last[1].from = "resource" /\ last[1].kind = "ok") =>
         LET j == IF pc = "done" THEN 5 ELSE frame.i - 1
             reported == last[1].data[1].count
         IN  QueueField(frame.stats, QueueStatuses[j]) =
               IF reported = None THEN 0 ELSE reported[1]
    /\ (pc = "done" /\ result.ok) =>
         LET stats == result.value[1]
             completed == stats.successfulItems + stats.failedItems
         IN  /\ [stats EXCEPT !.successRate = None] = frame.stats
             /\ frame.i = 5
             /\ completed > 0 =>
                  /\ stats.successRate # None
                  /\ stats.successRate[1].num = stats.successfulItems * 100
                  /\ stats.successRate[1].den = completed

\* C11 witness: one New, one Successful and one Failed item give totalItems 3
\* and a success rate of 50
QueueStatsHalfSuccessful ==
  /\ pc = "done"
  /\ call.op = "getQueueStats"
  /\ result.ok
  /\ result.value[1].newItems = 1
  /\ result.value[1].successfulItems = 1
  /\ result.value[1].failedItems = 1
  /\ result.value[1].totalItems = 3
  /\ RateIs(result.value[1].successRate, 50)

\* a success rate is null exactly when no item or job completed, and is
\* otherwise the percentage of the successful ones, between 0 and 100
RateOrNull(rate, successful, unsuccessful) ==
  /\ rate = None <=> successful + unsuccessful = 0
  /\ rate # None =>
       /\ rate[1].den = successful + unsuccessful
       /\ rate[1].num = successful * 100
       /\ 0 <= rate[1].num
       /\ rate[1].num <= 100 * rate[1].den

\* C12: In the results of getQueueStats, getJobStats, getProcessPerformance and
\* getDashboardSummary (its rate of the jobs and its rate of the queues) the
\* success rate is null exactly when successful + faulted (or successful +
\* failed) is zero, and is otherwise between 0 and 100 inclusive.
SuccessRateNullOnNoData ==
  (pc = "done" /\ result.ok) =>
    LET r == result.value[1]
    IN  CASE call.op = "getQueueStats" ->
               RateOrNull(r.successRate, r.successfulItems, r.failedItems)
          [] call.op = "getJobStats" ->
               RateOrNull(r.successRate, r.successfulJobs, r.faultedJobs)
          [] call.op = "getProcessPerformance" ->
               RateOrNull(r.successRate, r.successful, r.faulted)
          [] call.op = "getDashboardSummary" ->
               /\ RateOrNull(r.successRateJobs, r.jobsByState.Successful,
                             r.jobsByState.Faulted)
               /\ RateOrNull(r.successRateQueues, r.queueItemsByStatus.Successful,
                             r.queueItemsByStatus.Failed)
          [] OTHER -> TRUE

\* C12 witness: a dashboard over two queues without a completed item, the one
\* job being successful: no rate for the queues, 100 for the jobs
DashboardWithoutQueueRate ==
  /\ pc = "done"
  /\ call.op = "getDashboardSummary"
  /\ result.ok
  /\ result.value[1].totalQueues = 2
  /\ result.value[1].successRateQueues = None
  /\ RateIs(result.value[1].successRateJobs, 100)

\* the operations of name `op` the composite awaited so far, in the order of the calls
AwaitedCalls(op) ==
  LET Test(h) == h.sub.op = op
  IN  SelectSeq(hist, Test)

\* C13: getDashboardSummary asks getQueueStats for the first min(5, n) of the n
\* queue definitions getQueueDefinitions returned, in the order returned and
\* for no other queue, and reports totalQueues = n.
DashboardFirstFiveQueues ==
  (call.op = "getDashboardSummary" /\ Len(hist) >= 1 /\ hist[1].outcome # None
     /\ hist[1].outcome[1].ok) =>
    LET queues == hist[1].outcome[1].data[1]
        asked == AwaitedCalls("getQueueStats")
    IN  /\ hist[1].sub.op = "getQueueDefinitions"
        /\ Len(asked) <= Min(5, Len(queues))
        /\ \A k \in 1..Len(asked) :
             /\ asked[k].sub.args.queueId = queues[k].Id
             /\ asked[k].sub.args.queueName = queues[k].Name
        /\ (pc = "done" /\ result.ok) =>
             /\ Len(asked) = Min(5, Len(queues))
             /\ result.value[1].totalQueues = Len(queues)
             /\ result.value[1].totalQueueItems =
                  SumOf([k \in 1..Len(asked) |-> asked[k].outcome[1].data[1].totalItems])

\* C13 witness: more than five queue definitions returned by descending Id: the
\* statistics of the five of highest Id are fetched, totalQueues counts all
DashboardOverSixQueues ==
  /\ pc = "done"
  /\ call.op = "getDashboardSummary"
  /\ result.ok
  /\ result.value[1].totalQueues = MaxQueues
  /\ Len(AwaitedCalls("getQueueStats")) = 5
  /\ AwaitedCalls("getQueueStats")[1].sub.args.queueId = MaxQueues
  /\ AwaitedCalls("getQueueStats")[5].sub.args.queueId = MaxQueues - 4
  /\ result.value[1].totalQueueItems > 0

\* the number of entries of what an operation of the Promise.all returned, 0 when it threw
\* (getJobs and getRobots return their entries with a count)
EntriesOf(sub, outcome) ==
  IF ~outcome.ok THEN 0
  ELSE IF sub.op \in {"getJobs", "getRobots"} THEN Len(outcome.data[1].items)
  ELSE Len(outcome.data[1])

\* C14: Once getFolders returned, getFolderOverview returns a result whichever of
\* its four concurrent fetches (jobs, queue definitions, releases, robots) fail
\* and in whatever order they settle: a failed fetch counts as empty (count 0,
\* no job in any state), and the result exists only after all four settled.
FolderOverviewToleratesFailures ==
  (call.op = "getFolderOverview" /\ Len(hist) >= 1 /\ hist[1].outcome # None
     /\ hist[1].outcome[1].ok) =>
    /\ Len(hist) = 5
    /\ pc \in {"all", "done"}
    /\ pc = "all" <=> \E b \in 1..4 : hist[b + 1].outcome = None
    /\ pc = "all" => result = NoResult
    /\ pc = "done" =>
         LET r == result.value[1]
             Out(b) == hist[b + 1].outcome[1]
         IN  /\ result.ok
             /\ r.totalJobs = EntriesOf(hist[2].sub, Out(1))
             /\ r.queueCount = EntriesOf(hist[3].sub, Out(2))
             /\ r.releaseCount = EntriesOf(hist[4].sub, Out(3))
             /\ r.robotCount = EntriesOf(hist[5].sub, Out(4))
             /\ ~Out(1).ok => \A st \in DOMAIN r.jobCounts : r.jobCounts[st] = 0
             /\ Out(1).ok => r.jobCounts = JobCounts(Out(1).data[1].items)

\* C14 witness: the fetch of the jobs fails and settles last, the fetch of the
\* robots failed too; the queues and the release are counted
OverviewAfterTwoFailures ==
  /\ pc = "done"
  /\ call.op = "getFolderOverview"
  /\ result.ok
  /\ last[1].promise = 1
  /\ last[1].kind = "error"
  /\ ~hist[5].outcome[1].ok
  /\ result.value[1].totalJobs = 0
  /\ result.value[1].robotCount = 0
  /\ result.value[1].queueCount = MaxQueues
  /\ result.value[1].releaseCount = 1
  /\ result.value[1].folderName = sFinance

\* the $filter of a request sent, none when it has no $filter
FilterOf(w) == IF "$filter" \in DOMAIN w.params THEN Some(w.params["$filter"]) ELSE None

\* findReleaseByNameOrKey asks by key, then, the key matching nothing, by name,
\* and returns the first match or null
KeyThenName(nameOrKey) ==
  /\ Len(hist) <= 2
  /\ hist[1].wire.endpoint = epReleases
  /\ FilterOf(hist[1].wire) = Some(sProcessKeyEq \o encodeURIComponent(nameOrKey) \o sQuote)
  /\ Len(hist) = 2 =>
       /\ frame.releasesByKey = Some(<<>>)
       /\ hist[2].wire.endpoint = epReleases
       /\ FilterOf(hist[2].wire) = Some(sNameEq \o escapeODataString(nameOrKey) \o sQuote)
  /\ (pc = "done" /\ result.ok) =>
       /\ Len(hist) = 1 =>
            /\ frame.releasesByKey # Some(<<>>)
            /\ result.value = Some(frame.releasesByKey[1][1])
       /\ Len(hist) = 2 => result.value = FirstOrNull(last[1].data[1].value)
       /\ result.value = None <=>
            /\ Len(hist) = 2
            /\ frame.releasesByKey = Some(<<>>)
            /\ last[1].data[1].value = <<>>

\* C15: findReleaseByNameOrKey first issues the exact-key query and returns its
\* first result if it is non-empty; it issues the exact-name query only after
\* the key query returned nothing; it returns null exactly when both queries
\* return nothing.
ReleaseByKeyThenName ==
  (call.op = "findReleaseByNameOrKey" /\ Len(hist) >= 1) => KeyThenName(call.options.nameOrKey)

\* the same for every name or key but the empty text
ReleaseByNonEmptyKeyThenName ==
  (call.op = "findReleaseByNameOrKey" /\ Len(hist) >= 1 /\ call.options.nameOrKey # <<>>) =>
    KeyThenName(call.options.nameOrKey)

\* a release found by its name after the key matched nothing
ReleaseFoundByName ==
  /\ pc = "done"
  /\ call.op = "findReleaseByNameOrKey"
  /\ Len(hist) = 2
  /\ result.ok
  /\ result.value # None
  /\ result.value[1].Name = call.options.nameOrKey

\* the empty text resolved to a release: the first of an unfiltered listing
ReleaseFoundForEmptyText ==
  /\ pc = "done"
  /\ call.op = "findReleaseByNameOrKey"
  /\ call.options.nameOrKey = <<>>
  /\ result.ok
  /\ result.value # None
  /\ FilterOf(hist[1].wire) = None

\* the milliseconds from a time to a later or earlier one, both parsed
Elapsed(start, end) == (end.s - start.s) * 1000 + end.ms - start.ms

\* d is what the specification of computeDuration gives for the two times: null
\* when a time is absent or is not a timestamp, and otherwise the integer
\* nearest to (end - start) / 1000, a half going up, which is not negative
\* when end >= start
DurationAsSpecified(d, startTime, endTime) ==
  IF startTime \in {None, Some(<<>>)} \/ endTime \in {None, Some(<<>>)} THEN d = None
  ELSE IF DateGetTime(startTime[1]) = None \/ DateGetTime(endTime[1]) = None THEN d = None
  ELSE LET ms == Elapsed(DateGetTime(startTime[1])[1], DateGetTime(endTime[1])[1])
       IN  /\ d # None
           /\ 2 * d[1] * 1000 <= 2 * ms + 1000
           /\ 2 * ms + 1000 < 2 * (d[1] + 1) * 1000
           /\ ms >= 0 => d[1] >= 0

\* C16: computeDuration(start, end) is round((end - start) / 1000) of the two
\* times in milliseconds when both are present and parse as timestamps, null
\* when one is absent or does not parse, and a non-negative integer whenever
\* end >= start; getFaultedJobs reports it as durationSeconds of each job.
DurationRoundedSeconds ==
  (pc = "done" /\ call.op = "getFaultedJobs" /\ result.ok) =>
    \A k \in 1..Len(result.value[1]) :
      LET job == result.value[1][k]
      IN  DurationAsSpecified(job.durationSeconds, job.StartTime, job.EndTime)

\* C16 witness: a job from 10:00:00Z to 10:02:00Z lasted 120 seconds, one of a
\* second and a half 2 seconds, and one whose end is no timestamp has no duration
DurationsOfFaultedJobs ==
  /\ pc = "done"
  /\ call.op = "getFaultedJobs"
  /\ result.ok
  /\ \E k \in 1..Len(result.value[1]) :
       /\ result.value[1][k].StartTime = Some(t100000)
       /\ result.value[1][k].EndTime = Some(t100200)
       /\ result.value[1][k].durationSeconds = Some(120)
  /\ \E k \in 1..Len(result.value[1]) :
       /\ result.value[1][k].EndTime = Some(t100001h)
       /\ result.value[1][k].durationSeconds = Some(2)

\* a job whose end is no timestamp has no duration
DurationAbsent ==
  /\ pc = "done"
  /\ call.op = "getFaultedJobs"
  /\ result.ok
  /\ \E k \in 1..Len(result.value[1]) :
       /\ result.value[1][k].EndTime = Some(tGarbage)
       /\ result.value[1][k].durationSeconds = None

\* the positions of the jobs in a state of `states`
PositionsIn(jobs, states) == {k \in 1..Len(jobs) : jobs[k].State \in states}

\* the duration of the k-th job
DurationAt(jobs, k) == computeDuration(jobs[k].StartTime, jobs[k].EndTime)

\* the sum of the durations of the jobs at the positions of S
RECURSIVE DurationSum(_, _)
DurationSum(jobs, S) ==
  IF S = {} THEN 0
  ELSE LET k == CHOOSE x \in S : TRUE
       IN  DurationAt(jobs, k)[1] + DurationSum(jobs, S \ {k})

\* C17: Over the jobs it fetched, getProcessPerformance computes the success
\* rate from the Successful and the Faulted jobs only, and the average, minimum
\* and maximum duration from the Successful jobs with a non-null duration only:
\* all three are null when there is no such job; otherwise min <= avg <= max,
\* avg being the mean rounded to the nearest integer.
PerformanceFromSuccessfulJobs ==
  (pc = "done" /\ call.op = "getProcessPerformance" /\ result.ok) =>
    LET r == result.value[1]
        jobs == last[1].data[1].value
        timed == {k \in PositionsIn(jobs, {sSuccessful}) : DurationAt(jobs, k) # None}
        n == Cardinality(timed)
        sum == DurationSum(jobs, timed)
    IN  /\ r.totalExecutions = Len(jobs)
        /\ r.successful = Cardinality(PositionsIn(jobs, {sSuccessful}))
        /\ r.faulted = Cardinality(PositionsIn(jobs, {sFaulted}))
        /\ RateOrNull(r.successRate, r.successful, r.faulted)
        /\ n = 0 => /\ r.avgDurationSeconds = None
                    /\ r.minDurationSeconds = None
                    /\ r.maxDurationSeconds = None
        /\ n > 0 =>
             LET avg == r.avgDurationSeconds[1]
                 min == r.minDurationSeconds[1]
                 max == r.maxDurationSeconds[1]
             IN  /\ \E k \in timed : DurationAt(jobs, k) = Some(min)
                 /\ \E k \in timed : DurationAt(jobs, k) = Some(max)
                 /\ \A k \in timed : /\ min <= DurationAt(jobs, k)[1]
                                      /\ DurationAt(jobs, k)[1] <= max
                 /\ 2 * avg * n <= 2 * sum + n
                 /\ 2 * sum + n < 2 * (avg + 1) * n
                 /\ min <= avg
                 /\ avg <= max

\* C17 witness: two successful jobs of 2 and 3 seconds: minimum 2, maximum 3,
\* average 3 (2.5 rounded), rate 100
PerformanceOfTwoJobs ==
  /\ pc = "done"
  /\ call.op = "getProcessPerformance"
  /\ result.ok
  /\ result.value[1].successful = 2
  /\ result.value[1].minDurationSeconds = Some(2)
  /\ result.value[1].maxDurationSeconds = Some(3)
  /\ result.value[1].avgDurationSeconds = Some(3)
  /\ RateIs(result.value[1].successRate, 100)

\* a successful job without an end and a faulted job: rate 50 and no duration
PerformanceWithoutDurations ==
  /\ pc = "done"
  /\ call.op = "getProcessPerformance"
  /\ result.ok
  /\ result.value[1].successful = 1
  /\ result.value[1].faulted = 1
  /\ RateIs(result.value[1].successRate, 50)
  /\ result.value[1].avgDurationSeconds = None

\* the operations of C18 that send their requests themselves
PropagatingOps ==
  {"getQueueStats", "getProcessPerformance", "getFaultedJobs", "findReleaseByNameOrKey"}

\* the k-th request of the record was answered and failed
FailedAt(k) == hist[k].response # None /\ hist[k].response[1].kind # "ok"

\* the text that makes the listing inside the operation retry its first request:
\* getQueueItems and getJobs test the longer one, getFaultedJobs the shorter
RetriedOn(op) ==
  CASE op \in {"getQueueStats", "getProcessPerformance"} -> Some(sInvalidODataQueryOptions)
    [] op = "getFaultedJobs" -> Some(sInvalidOData)
    [] OTHER -> None

\* C18 as stated: getQueueStats, the queue part of getDashboardSummary,
\* getProcessPerformance, getFaultedJobs and findReleaseByNameOrKey never return
\* a result after one of their underlying requests failed.
NoResultAfterFailedRequest ==
  /\ (call.op \in PropagatingOps /\ \E k \in 1..Len(hist) : FailedAt(k)) =>
       ~(pc = "done" /\ result.ok)
  /\ (call.op = "getDashboardSummary" /\
      \E k \in 1..Len(hist) : hist[k].outcome # None /\ ~hist[k].outcome[1].ok) =>
       ~(pc = "done" /\ result.ok)

\* C18 as amended: a failed exchange, and a failed request of these operations,
\* makes the operation fail with the error of that failure, except that the
\* first request of a listing failing with the invalid-query text of that
\* listing is retried once without $orderby; a failure of the retry makes the
\* operation fail.  getDashboardSummary fails with the error of the first
\* operation it awaits that fails.
FailurePropagatesUnlessRetried ==
  /\ call.op \in PropagatingOps =>
       /\ (last # None /\ last[1].from = "identity" /\ last[1].kind # "ok") =>
            (pc = "done" /\ ~result.ok)
       /\ \A k \in 1..Len(hist) :
            FailedAt(k) =>
              \/ /\ k = Len(hist)
                 /\ pc = "done"
                 /\ ~result.ok
                 /\ result.message = MessageOf(hist[k].response[1])
              \/ /\ k = 1
                 /\ Len(hist) = 2
                 /\ RetriedOn(call.op) # None
                 /\ Includes(MessageOf(hist[1].response[1]), RetriedOn(call.op)[1])
                 /\ hist[2].wire.endpoint = hist[1].wire.endpoint
                 /\ "$orderby" \notin DOMAIN hist[2].wire.params
  /\ call.op = "getDashboardSummary" =>
       \A k \in 1..Len(hist) :
         (hist[k].outcome # None /\ ~hist[k].outcome[1].ok) =>
           /\ k = Len(hist)
           /\ pc = "done"
           /\ ~result.ok
           /\ result.message = hist[k].outcome[1].message

\* C18 witness: the query of the third status of getQueueStats is answered 500
\* after two counts were added: the operation fails with that error
QueueStatsFailsMidway ==
  /\ pc = "done"
  /\ call.op = "getQueueStats"
  /\ frame.i = 3
  /\ FailedAt(Len(hist))
  /\ ~result.ok
  /\ result.message = ApiErrorMessage(500, bodyServerError)

\* a result returned after the first request failed and was retried
ResultAfterRetry ==
  /\ pc = "done"
  /\ call.op = "getFaultedJobs"
  /\ result.ok
  /\ Len(hist) = 2
  /\ FailedAt(1)

\* the k-th operation awaited is a lookup by name that returned null
LookupFoundNothing(k) ==
  /\ hist[k].sub.op \in {"getQueueDefinitionByName", "findReleaseByNameOrKey"}
  /\ hist[k].outcome # None
  /\ hist[k].outcome[1].ok
  /\ hist[k].outcome[1].data[1] = None

\* the k-th operation awaited is the call the tool exists for
IsDownstream(k) == hist[k].sub.op \in {"startJob", "getQueueStats", "getQueueItems"}

\* C19: When the lookup by name of uipath_start_job, uipath_get_queue_stats or
\* uipath_get_queue_items returns no match, the tool fails with its not-found
\* error and calls nothing after the lookup: StartJobs, the counts per status
\* and the listing of the items are only asked for with the identifier of a
\* match (or, for uipath_get_queue_items, without any lookup).
NotFoundStopsTool ==
  call.op \in LookupTools =>
    \A k \in 1..Len(hist) :
      /\ LookupFoundNothing(k) =>
           /\ k = Len(hist)
           /\ pc = "done"
           /\ ~result.ok
           /\ result.message =
                (IF call.op = "uipath_start_job"
                 THEN sNoReleaseFound \o call.options.processName
                 ELSE sQueueNotFound \o hist[k].sub.args.name)
      /\ IsDownstream(k) =>
           \/ /\ k = 2
              /\ hist[1].outcome[1].ok
              /\ hist[1].outcome[1].data[1] # None
              /\ LET found == hist[1].outcome[1].data[1][1]
                 IN  CASE call.op = "uipath_start_job" ->
                            hist[k].sub.args.releaseKey = found.Key
                       [] call.op = "uipath_get_queue_stats" ->
                            hist[k].sub.args.queueId = found.Id
                       [] call.op = "uipath_get_queue_items" ->
                            hist[k].sub.args.queueId = Some(found.Id)
           \/ /\ k = 1
              /\ call.op = "uipath_get_queue_items"
              /\ call.options.queueName = None \/ call.options.queueId # None
              /\ hist[k].sub.args.queueId = call.options.queueId

\* C19 witness: no release for the process: uipath_start_job fails with
\* "No release found for process: P1" having called the lookup only
StartJobWithoutRelease ==
  /\ pc = "done"
  /\ call.op = "uipath_start_job"
  /\ Len(hist) = 1
  /\ LookupFoundNothing(1)
  /\ ~result.ok
  /\ result.message = sNoReleaseFound \o sP1

\* the queue of the name found: its items are listed by its Id
QueueItemsOfNamedQueue ==
  /\ pc = "done"
  /\ call.op = "uipath_get_queue_items"
  /\ Len(hist) = 2
  /\ result.ok
  /\ hist[2].sub.args.queueId = Some(3)

\* the predicates `field eq '<text>'` that a request of the operation in progress
\* carries for the text its caller gave, the quotes of the text doubled
QuotedPredicates ==
  CASE call.op = "getProcessPerformance" ->
         {sReleaseNameEq \o escapeODataString(call.options.processName) \o sQuote}
    [] call.op = "getFaultedJobs" /\ Truthy(call.options.releaseName) ->
         {sReleaseNameEq \o escapeODataString(call.options.releaseName[1]) \o sQuote}
    [] call.op = "findReleaseByNameOrKey" /\ call.options.nameOrKey # <<>> ->
         {sProcessKeyEq \o escapeODataString(call.options.nameOrKey) \o sQuote,
          sNameEq \o escapeODataString(call.options.nameOrKey) \o sQuote}
    [] OTHER -> {}

\* C20: Every request whose $filter compares a field with a text of the caller
\* (eq '...') carries that text with each single quote doubled, so that the
\* text cannot end the quoted literal.
FilterQuotesDoubled ==
  QuotedPredicates # {} =>
    \A k \in 1..Len(hist) :
      /\ FilterOf(hist[k].wire) # None
      /\ \E p \in QuotedPredicates : Includes(FilterOf(hist[k].wire)[1], p)

\* a request sent with the quote of the caller's text as it came
QuoteSentUndoubled ==
  /\ call.op = "getProcessPerformance"
  /\ call.options.processName = sQuoted
  /\ Len(hist) >= 1
  /\ FilterOf(hist[1].wire) = Some(sReleaseNameEq \o sQuoted \o sQuote)

\* the same for the operations that call escapeODataString
FilterQuotesDoubledWhereEscaped ==
  (call.op = "getFaultedJobs" /\ QuotedPredicates # {}) =>
    \A k \in 1..Len(hist) :
      /\ FilterOf(hist[k].wire) # None
      /\ \E p \in QuotedPredicates : Includes(FilterOf(hist[k].wire)[1], p)

-----------------------------------------------------------------------------
(* Credentials, the frame of the client state, concurrent callers *)

\* the message of the error raised on the response r, from where it came, its
\* status and its body text; for a failed fetch, the message of the failure
ErrorOn(r) ==
  IF r.kind = "network" THEN r.body
  ELSE IF r.from = "identity" THEN sFailedToObtain \o r.body
  ELSE sApiRequestFailed \o ToStr(r.status) \o sCloseColon \o r.body

MentionsCredential(message) ==
  \E c \in Credentials : Includes(message, c.clientId) \/ Includes(message, c.clientSecret)

\* C21: Whatever the clientId and the clientSecret of the configuration, the
\* message of every error an operation fails with is the one determined by the
\* response the operation failed on (where it came from, its status, its body
\* text), so two configurations that differ in the credentials only and receive
\* the same responses fail with the same messages; no message contains a
\* clientId or a clientSecret, which go into the body of the exchange request only.
ErrorsFreeOfCredentials ==
  /\ (pc = "done" /\ ~result.ok) =>
       /\ last # None
       /\ result.message = ErrorOn(last[1])
       /\ ~MentionsCredential(result.message)
  /\ wire.kind = "identity" =>
       /\ wire.body.client_id = config.clientId
       /\ wire.body.client_secret = config.clientSecret
  /\ wire.kind = "resource" =>
       \A h \in DOMAIN wire.headers : ~MentionsCredential(wire.headers[h])

\* C21 witness: the client of the second pair of credentials failed on a denied exchange
DeniedWithSecondCredentials ==
  /\ pc = "done"
  /\ ~result.ok
  /\ config.clientId = idB
  /\ config.clientSecret = secretB
  /\ last # None
  /\ last[1].from = "identity"
  /\ last[1].kind = "http"
  /\ result.message = sFailedToObtain \o bodyInvalidClient

\* the step wrote the cache from the TokenResponse of an exchange that succeeded
WrittenByExchange ==
  /\ pc = "exchange"
  /\ last' # None
  /\ last'[1].from = "identity"
  /\ last'[1].kind = "ok"
  /\ accessToken' = Some(last'[1].data[1].access_token)
  /\ tokenExpiresAt' = Some(now + last'[1].data[1].expires_in * 1000)

\* the step received a response that is not a success, of the identity endpoint
\* or of the resource API
ReceivedFailure ==
  /\ pc \in {"exchange", "fetch"}
  /\ last' # None
  /\ last'[1].kind # "ok"

\* C22: No step of a public operation changes the configuration, the resolved
\* root URL of the API or the default folder id; the cached token and its
\* expiry change only in the step in which ensureToken received the successful
\* answer of its exchange, and then to the values of that answer; a step in
\* which an exchange or a resource request failed, and a step in which a
\* resource request succeeded, leave the cached pair as it was.
ClientStateFrame ==
  [][/\ config' = config
     /\ baseUrl' = baseUrl
     /\ defaultFolderId' = defaultFolderId
     /\ (accessToken' # accessToken \/ tokenExpiresAt' # tokenExpiresAt) => WrittenByExchange
     /\ (ReceivedFailure \/ pc = "fetch") =>
          (accessToken' = accessToken /\ tokenExpiresAt' = tokenExpiresAt)]_vars

\* C22 witness: an exchange was denied while the cache held an expiring token, and
\* the cache still holds it; the root URL is the one resolved at construction
DeniedExchangeKeptToken ==
  /\ pc = "done"
  /\ ~result.ok
  /\ last # None
  /\ last[1].from = "identity"
  /\ last[1].kind = "http"
  /\ accessToken = Some(tokenA)
  /\ tokenExpiresAt = Some(ExpiryOf(0, 360))
  /\ config.baseUrl = urlOrgTenant
  /\ baseUrl = urlOrgTenant \o sSlashOrchestrator_

\* the this.request calls whose fetch was sent
Sent == {c \in DOMAIN inflight : inflight[c].pc \in {"fetch", "done"}}

\* the this.request calls whose exchange is on its way or being read
Exchanging == {c \in DOMAIN inflight : inflight[c].pc \in {"exchange", "json"}}

\* C23: With several this.request calls in progress on one client, every
\* ensureToken call sends at most one exchange and nothing keeps two calls
\* from each sending one; under every interleaving the Authorization header of
\* every resource request carries the token ensureToken returned to that call,
\* which is the token of an exchange that completed successfully, and the cache
\* holds the token and the expiry of the exchange that completed last (it is
\* empty while none has completed).
ConcurrentRefresh ==
  /\ \A c \in DOMAIN inflight : inflight[c].exchanges <= 1
  /\ \A c \in Sent :
       /\ inflight[c].headers[1]["Authorization"] = sBearer \o inflight[c].token[1]
       /\ \E k \in DOMAIN granted : granted[k].access_token = inflight[c].token[1]
  /\ IF granted = <<>> THEN accessToken = None /\ tokenExpiresAt = None
     ELSE /\ accessToken = Some(granted[Len(granted)].access_token)
          /\ tokenExpiresAt = Some(granted[Len(granted)].expiresAt)

\* C23 witness: two calls each completed an exchange of their own, the first
\* receiving tkB and the second tkA; the first call's request carries tkB although
\* the cache holds tkA, the token of the exchange that completed last; a third
\* call has sent an exchange as well
TwoExchangesRaced ==
  /\ Len(inflight) = MaxCallers
  /\ Len(granted) = 2
  /\ granted[1].access_token = tokenB
  /\ granted[2].access_token = tokenA
  /\ accessToken = Some(tokenA)
  /\ \E c \in Sent : inflight[c].token = Some(tokenB) /\ inflight[c].exchanges = 1
  /\ \E c \in Sent : inflight[c].token = Some(tokenA) /\ inflight[c].exchanges = 1
  /\ Exchanging # {}

-----------------------------------------------------------------------------
(* Pages, the order of the statistics' queries, the recent jobs *)

\* the identifiers of the items of a page
IdsOf(page) == {page[i].Id : i \in DOMAIN page}

\* the caller has both pages of the folders at hand
BothPages == pc = "done" /\ call.op = "paginateFolders" /\ result.ok

\* the two pages share no identifier and neither is longer than k
DisjointPagesOf(k, pages) ==
  /\ IdsOf(pages.page1) \cap IdsOf(pages.page2) = {}
  /\ Len(pages.page1) <= k
  /\ Len(pages.page2) <= k

\* C24 as stated: before a remote side whose collection does not change and is
\* totally ordered, getFolders({top: k, skip: 0}) and getFolders({top: k, skip: k})
\* return pages that share no item identifier, each of at most k items.
PagesDisjoint == BothPages => DisjointPagesOf(call.options.k, result.value[1])

\* C24 for a page size of at least one: the same statement
PagesDisjointFromOne ==
  (BothPages /\ call.options.k >= 1) => DisjointPagesOf(call.options.k, result.value[1])

\* C24, the page size zero: both calls ask for $top=100 and $skip=0 and return
\* the same page, the whole collection
PageSizeZeroAsksForHundred ==
  (BothPages /\ call.options.k = 0) =>
    /\ \A i \in DOMAIN hist : /\ hist[i].wire.params["$top"] = ToStr(100)
                               /\ hist[i].wire.params["$skip"] = ToStr(0)
    /\ result.value[1].page1 = result.value[1].page2
    /\ Len(result.value[1].page1) = Len(backing[1].folders)

\* two full pages of two folders out of five were returned, in the order of the names
TwoFullPages ==
  /\ BothPages
  /\ call.options.k = 2
  /\ Len(backing[1].folders) = 5
  /\ <<result.value[1].page1[1].Id, result.value[1].page1[2].Id>> = <<5, 2>>
  /\ <<result.value[1].page2[1].Id, result.value[1].page2[2].Id>> = <<3, 4>>

\* the order in which the statuses are to be asked for
StatedOrder == <<sNew, sInProgress, sSuccessful, sFailed, sAbandoned>>

\* getQueueStats is in progress and its k-th query is the one being made
AskingFor(k) ==
  /\ call.op = "getQueueStats"
  /\ pc \in {"exchange", "fetch"}
  /\ frame.i = k

\* the request being made asks for the items of the status st
AsksForStatus(r, st) ==
  /\ "$filter" \in DOMAIN r.params
  /\ Includes(r.params["$filter"], sStatusEq \o st \o sQuote)
  /\ \A other \in {StatedOrder[j] : j \in 1..5} \ {st} :
       ~Includes(r.params["$filter"], sStatusEq \o other \o sQuote)

\* C25: getQueueStats makes its count queries one at a time in the order New,
\* InProgress, Successful, Failed, Abandoned: it begins with New, every request
\* of its k-th query asks for the k-th status, it goes from the k-th query to
\* the next one only in the step in which the k-th query received its
\* successful answer, and the success rate is computed, and a result returned,
\* only in the step in which the fifth query completed.
QueueStatsInOrder ==
  [][/\ (call.op # "getQueueStats" /\ call'.op = "getQueueStats") => frame'.i = 1
     /\ \A k \in 1..5 : AskingFor(k)' => AsksForStatus(req', StatedOrder[k])
     /\ (call.op = "getQueueStats" /\ call'.op = "getQueueStats" /\ frame'.i # frame.i) =>
          /\ frame'.i = frame.i + 1
          /\ pc = "fetch"
          /\ last'[1].kind = "ok"
          /\ pc' \in {"exchange", "fetch"}
     /\ (call'.op = "getQueueStats" /\ pc' # "done") => frame'.stats.successRate = None
     /\ (call'.op = "getQueueStats" /\ pc' = "done" /\ result'.ok) =>
          /\ frame.i = 5
          /\ pc = "fetch"
          /\ last'[1].kind = "ok"]_vars

\* C25 witness: the fifth query, for Abandoned, is on its way after the four before
\* it counted an item, and no success rate has been computed
FifthQueryOnItsWay ==
  /\ AskingFor(5)
  /\ pc = "fetch"
  /\ AsksForStatus(req, sAbandoned)
  /\ frame.stats.totalItems >= 1
  /\ frame.stats.failedItems = 1
  /\ frame.stats.successRate = None

\* getProcessPerformance returned a result
PerformanceReturned == pc = "done" /\ call.op = "getProcessPerformance" /\ result.ok

\* the jobs of a release that the remote side holds, the most recently created first
ByRecency(processName) ==
  LET Test(j) == j.ReleaseName = processName
  IN  OrderedBy(SelectSeq(backing[1].jobs, Test), sCreationTimeDesc)

\* the first ten of a sequence
FirstTen(jobs) == SubSeq(jobs, 1, Min(Len(jobs), 10))

\* C26 as stated: on every path of the job listing, the fallback without
\* $orderby included, recentJobs are the 10 most recently created of the jobs of
\* the release (all of them when there are fewer).
RecentJobsAreMostRecent ==
  PerformanceReturned =>
    IdsOf(result.value[1].recentJobs) = IdsOf(FirstTen(ByRecency(call.options.processName)))

\* C26 where the listing was not retried: recentJobs are the ten most recent,
\* the most recent first
RecentJobsWhenOrdered ==
  (PerformanceReturned /\ Len(hist) = 1) =>
    result.value[1].recentJobs = FirstTen(ByRecency(call.options.processName))

\* C26 where the listing was retried without $orderby: recentJobs are the first
\* ten of the jobs of the release in the remote side's own order
RecentJobsAfterFallback ==
  (PerformanceReturned /\ Len(hist) = 2) =>
    LET Test(j) == j.ReleaseName = call.options.processName
    IN  /\ "$orderby" \notin DOMAIN hist[2].wire.params
        /\ result.value[1].recentJobs = FirstTen(SelectSeq(backing[1].jobs, Test))

\* twelve jobs held oldest first, the listing retried: the ten oldest were returned
TenOldestReturned ==
  /\ PerformanceReturned
  /\ Len(hist) = 2
  /\ Len(backing[1].jobs) = 12
  /\ IdsOf(result.value[1].recentJobs) = 1..10
  /\ result.value[1].totalExecutions = 12

\* twelve jobs held oldest first, the listing not retried: the ten newest were
\* returned, the newest first
TenNewestReturned ==
  /\ PerformanceReturned
  /\ Len(hist) = 1
  /\ backing[1].jobs[1].Id = 1
  /\ Len(result.value[1].recentJobs) = 10
  /\ result.value[1].recentJobs[1].Id = 12
  /\ result.value[1].recentJobs[10].Id = 3

-----------------------------------------------------------------------------
(* The verification of connections *)

\* the clients constructed with the verification left on, and with it disabled
Verifying == {i \in DOMAIN peers : ~peers[i].disableSslVerify}
Disabling == {i \in DOMAIN peers : peers[i].disableSslVerify}

\* C27 as stated: the requests of a client constructed with the verification
\* left on are verified, whatever other clients were constructed in the process
\* before or after it.
TlsSettingsDoNotInterfere == \A i \in Verifying : FALSE \notin peers[i].verified

\* C27, what holds: the verification is a setting of the process; the
\* construction of a client that disables it sets the variable for good, and
\* from then on no request of any client is verified
TlsSettingIsOfTheProcess ==
  [][/\ Disabling' # {} => env' = Some(sZero)
     /\ env = Some(sZero) => env' = Some(sZero)
     /\ \A i \in DOMAIN peers :
          (env = Some(sZero) /\ peers'[i].verified # peers[i].verified) =>
            peers'[i].verified = peers[i].verified \cup {FALSE}]_vars

\* a client constructed with the verification left on sent a verified request,
\* then a client that disables it was constructed, then the first sent a
\* request that was not verified
VerifyingClientUnverified ==
  /\ Len(peers) >= 2
  /\ ~peers[1].disableSslVerify
  /\ peers[2].disableSslVerify
  /\ peers[1].verified = {TRUE, FALSE}

-----------------------------------------------------------------------------
(* Statistics of the jobs and of a queue, the overview of a folder *)

\* pendingJobs + runningJobs + successfulJobs + faultedJobs + stoppedJobs
FiveCounters(s) ==
  s.pendingJobs + s.runningJobs + s.successfulJobs + s.faultedJobs + s.stoppedJobs

\* the six states getJobStats knows
KnownStates == {sPending, sRunning, sSuccessful, sFaulted, sStopped, sTerminated}

\* the step ends getJobStats with a result
JobStatsReturns ==
  /\ call.op = "getJobStats"
  /\ pc # "done"
  /\ call' = call
  /\ pc' = "done"
  /\ result'.ok

\* C28: Every result of getJobStats has pendingJobs + runningJobs +
\* successfulJobs + faultedJobs + stoppedJobs <= totalJobs.  When the counting
\* state by state completes, stoppedJobs is the count of Stopped plus the count
\* of Terminated and the five counters add up to totalJobs; on the fallback
\* totalJobs is the number of the jobs fetched, stoppedJobs the number of those
\* that are Stopped or Terminated, and the five counters add up to the number
\* of fetched jobs in one of the six known states, so to totalJobs whenever no
\* fetched job is in another state.
JobStatsWithinTotal ==
  [][/\ JobStatsReturns => FiveCounters(result'.value[1]) <= result'.value[1].totalJobs
     /\ (JobStatsReturns /\ ~frame'.useFallback) =>
          /\ FiveCounters(result'.value[1]) = result'.value[1].totalJobs
          /\ result'.value[1].stoppedJobs =
               frame.stats.stoppedJobs + last'[1].data[1].count[1]
     /\ (call.op = "getJobStats" /\ pc # "done" /\ call' = call /\ ~frame'.useFallback
           /\ frame.i = 5 /\ frame'.i = 6) =>
          frame'.stats.stoppedJobs = last'[1].data[1].count[1]
     /\ (JobStatsReturns /\ frame'.useFallback) =>
          /\ result'.value[1].totalJobs = Len(last'[1].data[1].value)
          /\ result'.value[1].stoppedJobs =
               CountIn(last'[1].data[1].value, {sStopped, sTerminated})
          /\ FiveCounters(result'.value[1]) = CountIn(last'[1].data[1].value, KnownStates)
          /\ (\A k \in DOMAIN last'[1].data[1].value :
                last'[1].data[1].value[k].State \in KnownStates) =>
               FiveCounters(result'.value[1]) = result'.value[1].totalJobs]_vars

\* C28 witness: the counting state by state completed with one Stopped and one
\* Terminated job, both in stoppedJobs
StoppedAndTerminatedCounted ==
  /\ pc = "done"
  /\ call.op = "getJobStats"
  /\ result.ok
  /\ ~frame.useFallback
  /\ result.value[1].stoppedJobs = 2
  /\ FiveCounters(result.value[1]) = result.value[1].totalJobs

\* on the fallback a Suspended job is in totalJobs and in none of the five counters
SuspendedJobOnlyInTotal ==
  /\ pc = "done"
  /\ call.op = "getJobStats"
  /\ result.ok
  /\ frame.useFallback
  /\ result.value[1].totalJobs = 2
  /\ result.value[1].stoppedJobs = 1
  /\ FiveCounters(result.value[1]) = 1

\* the five counters of a QueueStats, in the order of the queries
QueueCounters(s) ==
  <<s.newItems, s.inProgressItems, s.successfulItems, s.failedItems, s.abandonedItems>>

\* the step in which the query in progress of getQueueStats received a page
\* without a count
UnknownCountReceived ==
  /\ call.op = "getQueueStats"
  /\ call' = call
  /\ pc = "fetch"
  /\ pc' \in {"exchange", "fetch", "done"}
  /\ frame'.i = frame.i + 1 \/ (pc' = "done" /\ result'.ok)
  /\ last'[1].kind = "ok"
  /\ last'[1].data[1].count = None

\* C29: When a count query of getQueueStats is answered with a page without a
\* count, as the query retried without $count is, getQueueStats neither fails
\* nor tallies the page: the counter of that status is 0, the other counters and
\* totalItems stay as they were, and getQueueStats either goes on to the count
\* query of the next status, again with $top=1, or returns a result whose
\* success rate is computed from the counters so obtained.
UnknownCountIsZero ==
  [][UnknownCountReceived =>
       /\ QueueCounters(frame'.stats)[frame.i] = 0
       /\ \A j \in (1..5) \ {frame.i} :
            QueueCounters(frame'.stats)[j] = QueueCounters(frame.stats)[j]
       /\ frame'.stats.totalItems = frame.stats.totalItems
       /\ pc' = "done" =>
            /\ frame.i = 5
            /\ result'.ok
            /\ QueueCounters(result'.value[1]) = QueueCounters(frame'.stats)
            /\ result'.value[1].totalItems = frame.stats.totalItems
            /\ result'.value[1].successRate =
                 IF frame.stats.successfulItems + frame.stats.failedItems > 0
                 THEN Some(Rate(frame.stats.successfulItems,
                                frame.stats.successfulItems + frame.stats.failedItems))
                 ELSE None
       /\ pc' # "done" =>
            /\ frame'.i = frame.i + 1
            /\ AsksForStatus(req', StatedOrder[frame'.i])
            /\ req'.params["$top"] = ToStr(1)]_vars

\* C29 witness: the query for Abandoned was rejected and retried without $count,
\* the retry returned an item and no count, and the result reports no abandoned
\* item and a total without it
AbandonedItemCountedAsZero ==
  /\ pc = "done"
  /\ call.op = "getQueueStats"
  /\ result.ok
  /\ frame.attempt = 2
  /\ Len(hist) = 2
  /\ "$count" \notin DOMAIN hist[2].wire.params
  /\ last[1].data[1].count = None
  /\ Len(last[1].data[1].value) >= 1
  /\ result.value[1].abandonedItems = 0
  /\ result.value[1].totalItems = 1
  /\ result.value[1].newItems = 1

\* the folders returned hold a folder of the identifier
HasFolder(folders, folderId) == \E k \in DOMAIN folders : folders[k].Id = folderId

\* the operations getFolderOverview has called so far, in the order of the calls
OverviewCalled == [k \in DOMAIN hist |-> hist[k].sub.op]

\* C30: getFolderOverview first awaits getFolders({top: 1000}) and calls nothing
\* else before it settled.  When getFolders fails, getFolderOverview fails with
\* the same error and has called none of getJobs, getQueueDefinitions,
\* getReleases and getRobots.  When getFolders returns without a folder of the
\* identifier asked for, the four calls are made and the name of the folder is
\* "Folder " followed by the identifier, in the result as well.
FolderListFetchNotTolerated ==
  call.op = "getFolderOverview" =>
    /\ Len(hist) >= 1
    /\ hist[1].sub = SubCall("getFolders", [top |-> Some(1000)])
    /\ hist[1].outcome = None =>
         /\ pc = "await"
         /\ Len(hist) = 1
         /\ result = NoResult
    /\ (hist[1].outcome # None /\ ~hist[1].outcome[1].ok) =>
         /\ pc = "done"
         /\ OverviewCalled = <<"getFolders">>
         /\ ~result.ok
         /\ result.message = hist[1].outcome[1].message
    /\ (hist[1].outcome # None /\ hist[1].outcome[1].ok
          /\ ~HasFolder(hist[1].outcome[1].data[1].items, call.options.folderId)) =>
         /\ OverviewCalled =
              <<"getFolders", "getJobs", "getQueueDefinitions", "getReleases", "getRobots">>
         /\ frame.folderName = sFolderSpace \o ToStr(call.options.folderId)
         /\ pc = "done" =>
              /\ result.ok
              /\ result.value[1].folderName = sFolderSpace \o ToStr(call.options.folderId)

\* C30 witness: getFolders threw, and the overview ended with that error after
\* its one call
OverviewFailedOnFolders ==
  /\ pc = "done"
  /\ call.op = "getFolderOverview"
  /\ ~result.ok
  /\ result.message = ApiErrorMessage(500, bodyServerError)
  /\ Len(hist) = 1
  /\ ~hist[1].outcome[1].ok

\* getFolders returned another folder only, and the overview of folder 5 is
\* returned under the name "Folder 5"
OverviewOfUnlistedFolder ==
  /\ pc = "done"
  /\ call.op = "getFolderOverview"
  /\ result.ok
  /\ hist[1].outcome[1].data[1].items = <<[Id |-> 12, DisplayName |-> sP1]>>
  /\ result.value[1].folderName = <<"F", "o", "l", "d", "e", "r", " ", "5">>
  /\ result.value[1].totalJobs = 4

=============================================================================
